---- MODULE Spec2Model ----
(***************************************************************************)
(* Concurrency core of alpha-smart-router: the seqlock cells (MetricsSlot, *)
(* PolicyBinding), the SPSC ring and the RCU service registry, each as the *)
(* threads' individual loads and stores.                                   *)
(***************************************************************************)
EXTENDS Integers, Sequences, FiniteSets, TLC

(***************************************************************************)
(* Bounds of the model.                                                    *)
(***************************************************************************)
\* Number of control-plane operations (update_metrics, publish_policy,
\* clear_policy) the CP thread starts in one run.
MaxCpOps == 3
\* Bits of the model's unsigned words (std::uint32_t in the program).
WordBits == 4
\* SpscQueue capacities are 2^0 .. 2^MaxCapBits.
MaxCapBits == 2
\* Number of values the producer thread sends through the ring.
NumValues == 5
\* log2 of the largest valid PacketPool capacity.
MaxPoolBits == 1
\* Number of acquire calls, release calls and descriptor writes in one run.
MaxPoolOps == 6
\* Number of release calls that give back a handle which is not outstanding.
MaxBadReleases == 1
\* Largest number of candidates in a list passed to choose.
MaxCands == 3
\* Number of update_metrics calls the CP makes on the candidates' slots.
MaxSlotUpdates == 1
\* Number of registry mutations the writer thread starts in one run.
MaxRegOps == 2

(***************************************************************************)
(* Program constants.                                                      *)
(***************************************************************************)
\* std::uint32_t arithmetic is modulo 2^32; the model keeps the wraparound
\* and narrows the word to WordBits bits.
TwoPow32 == 2 ^ WordBits
\* std::numeric_limits<std::uint32_t>::max()
U32Max == TwoPow32 - 1
\* for (int i=0;i<4;++i) in load_metrics and snapshot_binding
MaxAttempts == 4

(***************************************************************************)
(* PathMetrics: six members, copied member by member in declaration order. *)
(***************************************************************************)
FieldNames == <<"rtt_us", "one_way_delay_us", "loss_ppm", "avail_kbps", "qos_class", "healthy">>

NFields == Len(FieldNames)

\* PathMetrics{} : the default member initialisers.
DefaultMetrics ==
    [rtt_us |-> U32Max, one_way_delay_us |-> U32Max, loss_ppm |-> 0,
     avail_kbps |-> 0, qos_class |-> 0, healthy |-> FALSE]

\* The values the CP passes to update_metrics in this model.
MetricsArgs ==
    { [rtt_us |-> 3, one_way_delay_us |-> 2, loss_ppm |-> 1,
       avail_kbps |-> 9, qos_class |-> 1, healthy |-> TRUE],
      [rtt_us |-> 5, one_way_delay_us |-> 4, loss_ppm |-> 2,
       avail_kbps |-> 7, qos_class |-> 2, healthy |-> TRUE] }

\* dst with member number k copied from src.
CopyField(dst, src, k) == [dst EXCEPT ![FieldNames[k]] = src[FieldNames[k]]]

(***************************************************************************)
(* Policies bound through the PolicyBinding: two policy objects of two     *)
(* different types, each with its own choose_thunk<Policy>.                *)
(***************************************************************************)
Null == "null"

Policies == {"A", "B"}

\* The function pointer &detail::choose_thunk<Policy> of a policy object's type.
ThunkOf(p) == IF p = "A" THEN "thunk_A" ELSE "thunk_B"

\* What policy.choose(cands, pkt) returns on the call's inputs.
ChooseOf(p) == IF p = "A" THEN 1 ELSE 2

\* Values a call through a thunk of the wrong type may produce.
PathIds == 0..2

\* choose_thunk<Policy>(state, cands, pkt): static_cast<Policy*>(state)->choose.
\* The set of possible results: one value when fn is the thunk of state's
\* type, anything when the cast is to the wrong type.
ThunkResults(fn, st) == IF fn = ThunkOf(st) THEN {ChooseOf(st)} ELSE PathIds

(***************************************************************************)
(* Seqlock arithmetic on the 32-bit counter.                               *)
(***************************************************************************)
\* Variant: the writer's opening store leaves the counter as it is.
Or1Unchanged(x) == x

\* start | 1u
Or1(x) == IF x % 2 = 0 THEN x + 1 ELSE x

\* Variant: the writer's closing store forgets the +1 and leaves seq odd.
PublishSeqOdd(start) == Or1(start)

\* (start | 1u) + 1u
PublishSeq(start) == (Or1(start) + 1) % TwoPow32

\* if (s1 & 1u) continue;
WriterActive(s1) == s1 % 2 = 1

\* Variant: a retry does not advance the attempt counter.
NextAttemptStuck(i) == i

\* The for loop's ++i, reached by continue and by a failed recheck alike.
NextAttempt(i) == i + 1

\* Variant: the loop gives up after a single attempt.
LoopContinuesOnce(i) == i < 1

\* The for loop's condition i<4.
LoopContinues(i) == i < MaxAttempts

\* Variant: the reader trusts the first sequence load and skips the recheck.
MetricsAcceptNoRecheck(s1, s2) == s1 % 2 = 0

\* load_metrics: if (s1 == s2 && (s2 % 2u) == 0u)
MetricsAccept(s1, s2) == s1 = s2 /\ s2 % 2 = 0

\* Variant: the reader trusts the first sequence load and skips the recheck.
BindingAcceptNoRecheck(s1, s2) == s1 % 2 = 0

\* snapshot_binding: if (s1 == s2 && (s2 % 2u) == 0u)
BindingAccept(s1, s2) == s1 = s2 /\ s2 % 2 = 0

\* Variant: an accepted read is reported as bound without testing the pointers.
AcceptedIsBound(fn, st) == TRUE

\* snapshot_binding: return fn && st;
BothNonNull(fn, st) == fn # Null /\ st # Null

(***************************************************************************)
(* State.                                                                  *)
(***************************************************************************)
Readers == {"dp1"}

VARIABLES
    m_seq,      \* MetricsSlot::seq
    m_metrics,  \* MetricsSlot::metrics
    b_seq,      \* PolicyBinding::seq
    b_fn,       \* PolicyBinding::fn
    b_state,    \* PolicyBinding::state
    cp,         \* the CP thread: its operation, position and locals
    dp,         \* the DP threads: each one's call, position and locals
    m_hist,     \* history: values a completed-or-started update_metrics was given
    b_hist,     \* history: (fn, state) pairs a publish_policy was storing
    q_cap,      \* SpscQueue::capacity_ (mask_ is capacity_ - 1)
    q_elem,     \* the element type T: "trivial" (int) or "move_only" (unique_ptr)
    q_head,     \* SpscQueue::head_
    q_tail,     \* SpscQueue::tail_
    q_buf,      \* SpscQueue::buf_[0 .. capacity_-1]
    prod,       \* the producer thread
    cons,       \* the consumer thread
    pushed,     \* history: values accepted by push, in order
    popped,     \* history: values delivered by pop, in order
    crashed,    \* the process was aborted by undefined behaviour
    r_map,      \* ServiceRegistry::map_ : the current snapshot (a heap object)
    r_heap,     \* the Map objects owned by shared_ptr control blocks
    r_version,  \* ServiceRegistry::version_
    r_stats,    \* adds_, replaces_, upserts_, removes_, failures_
    wr,         \* the registry's single writer thread
    rd,         \* the registry's reader threads
    r_hist,     \* history: the map contents stored to map_, in order
    f_req,      \* the capacity a with_capacity call was given
    f_res,      \* what that with_capacity call returned ("none": not called)
    p_cap,      \* PacketPool::capacity_
    p_pc,       \* PacketPool's life: "none", "seeding", "ready", "aborted"
    p_i,        \* the constructor's seeding loop index
    p_storage,  \* PacketPool::storage_ : the descriptors
    p_written,  \* history: what was last written to each descriptor through get
    p_out,      \* the handles the application holds (acquired, not given back)
    p_free,     \* history: the handles pushed to the free list and not yet popped, in order
    p_released, \* history: some release call has been made
    p_nacq,     \* history: successful acquires before the first release call
    p_ops,      \* history: acquire calls, release calls and descriptor writes so far
    p_bad,      \* history: release calls of a handle that was not outstanding
    rx,         \* the thread calling acquire
    tx,         \* the thread calling release (and the constructor's seeding pushes)
    s_seq,      \* MetricsSlot::seq of each candidate's slot
    s_metrics,  \* MetricsSlot::metrics of each candidate's slot
    s_cp,       \* the CP thread calling update_metrics on the slots
    pol,        \* the policy object: idx_, skip_unhealthy_, cfg_, salt_
    ch          \* the DP threads calling choose on the policy object

seqVars == <<m_seq, m_metrics, b_seq, b_fn, b_state, cp, dp, m_hist, b_hist>>

spscVars == <<q_cap, q_elem, q_head, q_tail, q_buf, prod, cons, pushed, popped, crashed>>

regVars == <<r_map, r_heap, r_version, r_stats, wr, rd, r_hist>>

memVars == <<f_req, f_res, p_cap, p_pc, p_i, p_storage, p_written, p_out, p_free,
             p_released, p_nacq, p_ops, p_bad, rx, tx>>

polVars == <<s_seq, s_metrics, s_cp, pol, ch>>

vars == <<seqVars, spscVars, regVars, memVars, polVars>>

CpIdle == [pc |-> "idle", op |-> "none", start |-> 0, arg |-> Null, k |-> 0, ops |-> 0]

DpIdle ==
    [pc |-> "idle", op |-> "none", i |-> 0, tries |-> 0, s1 |-> 0, k |-> 0,
     snap |-> DefaultMetrics, out |-> DefaultMetrics,
     fn |-> Null, st |-> Null, out_fn |-> Null, out_state |-> Null,
     ok |-> FALSE, ret |-> 0, invoked |-> FALSE,
     ovl |-> FALSE, clr |-> FALSE, unb0 |-> FALSE, bound0 |-> Null, view |-> Null]

InitSeqlock ==
    /\ m_seq = 0
    /\ m_metrics = DefaultMetrics
    /\ b_seq = 0
    /\ b_fn = Null
    /\ b_state = Null
    /\ cp = CpIdle
    /\ dp = [r \in Readers |-> DpIdle]
    /\ m_hist = {DefaultMetrics}
    /\ b_hist = {}


\* The CP is inside publish_policy or clear_policy.
CpOnBinding == cp.op \in {"publish", "clear"}

\* Not Bound: a pointer is null, or clear_policy is in progress.
Unbound == b_fn = Null \/ b_state = Null

\* The DP calls in progress that a binding operation starting now overlaps.
MarkOverlap(isClear) ==
    [r \in Readers |->
        IF dp[r].op = "select" /\ dp[r].pc # "done"
        THEN [dp[r] EXCEPT !.ovl = TRUE, !.clr = @ \/ isClear]
        ELSE dp[r]]

\* The load_metrics calls in progress that an update_metrics starting now
\* overlaps.
MarkLoadOverlap ==
    [r \in Readers |->
        IF dp[r].op = "load" /\ dp[r].pc # "done"
        THEN [dp[r] EXCEPT !.ovl = TRUE]
        ELSE dp[r]]

(***************************************************************************)
(* cp::update_metrics(MetricsSlot& s, const PathMetrics& m)                *)
(***************************************************************************)
UpdateMetricsLoad(m) ==
    /\ cp.pc = "idle" /\ cp.ops < MaxCpOps
    /\ cp' = [cp EXCEPT !.pc = "um_odd", !.op = "update", !.start = m_seq,
                        !.arg = m, !.ops = @ + 1]
    /\ m_hist' = m_hist \cup {m}
    /\ dp' = MarkLoadOverlap
    /\ UNCHANGED <<m_seq, m_metrics, b_seq, b_fn, b_state, b_hist, spscVars, regVars, memVars, polVars>>

UpdateMetricsEnter ==
    /\ cp.pc = "um_odd"
    /\ m_seq' = Or1(cp.start)
    /\ cp' = [cp EXCEPT !.pc = "um_copy", !.k = 1]
    /\ UNCHANGED <<m_metrics, b_seq, b_fn, b_state, dp, m_hist, b_hist, spscVars, regVars, memVars, polVars>>

UpdateMetricsCopy ==
    /\ cp.pc = "um_copy"
    /\ m_metrics' = CopyField(m_metrics, cp.arg, cp.k)
    /\ cp' = IF cp.k = NFields THEN [cp EXCEPT !.pc = "um_even", !.k = 0]
                               ELSE [cp EXCEPT !.k = @ + 1]
    /\ UNCHANGED <<m_seq, b_seq, b_fn, b_state, dp, m_hist, b_hist, spscVars, regVars, memVars, polVars>>

UpdateMetricsPublish ==
    /\ cp.pc = "um_even"
    /\ m_seq' = PublishSeq(cp.start)
    /\ cp' = [CpIdle EXCEPT !.ops = cp.ops]
    /\ UNCHANGED <<m_metrics, b_seq, b_fn, b_state, dp, m_hist, b_hist, spscVars, regVars, memVars, polVars>>

(***************************************************************************)
(* cp::publish_policy(PolicyBinding& b, Policy& policy)                    *)
(***************************************************************************)
PublishLoad(p) ==
    /\ cp.pc = "idle" /\ cp.ops < MaxCpOps
    /\ cp' = [cp EXCEPT !.pc = "pp_odd", !.op = "publish", !.start = b_seq,
                        !.arg = p, !.ops = @ + 1]
    /\ b_hist' = b_hist \cup {<<ThunkOf(p), p>>}
    /\ dp' = MarkOverlap(FALSE)
    /\ UNCHANGED <<m_seq, m_metrics, b_seq, b_fn, b_state, m_hist, spscVars, regVars, memVars, polVars>>

PublishEnter ==
    /\ cp.pc = "pp_odd"
    /\ b_seq' = Or1(cp.start)
    /\ cp' = [cp EXCEPT !.pc = "pp_state"]
    /\ UNCHANGED <<m_seq, m_metrics, b_fn, b_state, dp, m_hist, b_hist, spscVars, regVars, memVars, polVars>>

PublishState ==
    /\ cp.pc = "pp_state"
    /\ b_state' = cp.arg
    /\ cp' = [cp EXCEPT !.pc = "pp_fn"]
    /\ UNCHANGED <<m_seq, m_metrics, b_seq, b_fn, dp, m_hist, b_hist, spscVars, regVars, memVars, polVars>>

PublishFn ==
    /\ cp.pc = "pp_fn"
    /\ b_fn' = ThunkOf(cp.arg)
    /\ cp' = [cp EXCEPT !.pc = "pp_even"]
    /\ UNCHANGED <<m_seq, m_metrics, b_seq, b_state, dp, m_hist, b_hist, spscVars, regVars, memVars, polVars>>

PublishExit ==
    /\ cp.pc = "pp_even"
    /\ b_seq' = PublishSeq(cp.start)
    /\ cp' = [CpIdle EXCEPT !.ops = cp.ops]
    /\ UNCHANGED <<m_seq, m_metrics, b_fn, b_state, dp, m_hist, b_hist, spscVars, regVars, memVars, polVars>>

(***************************************************************************)
(* cp::clear_policy(PolicyBinding& b)                                      *)
(***************************************************************************)
ClearLoad ==
    /\ cp.pc = "idle" /\ cp.ops < MaxCpOps
    /\ cp' = [cp EXCEPT !.pc = "cl_odd", !.op = "clear", !.start = b_seq,
                        !.ops = @ + 1]
    /\ dp' = MarkOverlap(TRUE)
    /\ UNCHANGED <<m_seq, m_metrics, b_seq, b_fn, b_state, m_hist, b_hist, spscVars, regVars, memVars, polVars>>

ClearEnter ==
    /\ cp.pc = "cl_odd"
    /\ b_seq' = Or1(cp.start)
    /\ cp' = [cp EXCEPT !.pc = "cl_fn"]
    /\ UNCHANGED <<m_seq, m_metrics, b_fn, b_state, dp, m_hist, b_hist, spscVars, regVars, memVars, polVars>>

ClearFn ==
    /\ cp.pc = "cl_fn"
    /\ b_fn' = Null
    /\ cp' = [cp EXCEPT !.pc = "cl_state"]
    /\ UNCHANGED <<m_seq, m_metrics, b_seq, b_state, dp, m_hist, b_hist, spscVars, regVars, memVars, polVars>>

\* Variant: clear_policy leaves the state pointer in place.
ClearStateKept ==
    /\ cp.pc = "cl_state"
    /\ cp' = [cp EXCEPT !.pc = "cl_even"]
    /\ UNCHANGED <<m_seq, m_metrics, b_seq, b_fn, b_state, dp, m_hist, b_hist, spscVars, regVars, memVars, polVars>>

ClearState ==
    /\ cp.pc = "cl_state"
    /\ b_state' = Null
    /\ cp' = [cp EXCEPT !.pc = "cl_even"]
    /\ UNCHANGED <<m_seq, m_metrics, b_seq, b_fn, dp, m_hist, b_hist, spscVars, regVars, memVars, polVars>>

ClearExit ==
    /\ cp.pc = "cl_even"
    /\ b_seq' = PublishSeq(cp.start)
    /\ cp' = [CpIdle EXCEPT !.ops = cp.ops]
    /\ UNCHANGED <<m_seq, m_metrics, b_fn, b_state, dp, m_hist, b_hist, spscVars, regVars, memVars, polVars>>

(***************************************************************************)
(* dp::load_metrics(const MetricsSlot& s, PathMetrics& out)                *)
(***************************************************************************)
\* Variant: a failed attempt hands its copy to the caller's out.
LoadRetryWritesOut(d) ==
    IF LoopContinues(NextAttempt(d.i))
    THEN [d EXCEPT !.pc = "lm_s1", !.i = NextAttempt(d.i), !.k = 0, !.out = d.snap,
                   !.snap = DefaultMetrics]
    ELSE [d EXCEPT !.pc = "done", !.i = NextAttempt(d.i), !.k = 0, !.out = d.snap,
                   !.snap = DefaultMetrics, !.ok = FALSE]

\* The reader's record after a failed attempt: the next attempt, or the
\* return false behind the loop.
LoadRetry(d) ==
    IF LoopContinues(NextAttempt(d.i))
    THEN [d EXCEPT !.pc = "lm_s1", !.i = NextAttempt(d.i), !.k = 0, !.snap = DefaultMetrics]
    ELSE [d EXCEPT !.pc = "done", !.i = NextAttempt(d.i), !.k = 0, !.snap = DefaultMetrics,
                   !.ok = FALSE]

LoadMetricsCall(r) ==
    /\ dp[r].pc = "idle"
    /\ dp' = [dp EXCEPT ![r] = [DpIdle EXCEPT !.pc = "lm_s1", !.op = "load",
                                             !.ovl = cp.op = "update"]]
    /\ UNCHANGED <<m_seq, m_metrics, b_seq, b_fn, b_state, cp, m_hist, b_hist, spscVars, regVars, memVars, polVars>>

LoadMetricsS1(r) ==
    /\ dp[r].pc = "lm_s1"
    /\ LET d == [dp[r] EXCEPT !.s1 = m_seq, !.tries = @ + 1] IN
       dp' = [dp EXCEPT ![r] =
                IF WriterActive(m_seq) THEN LoadRetry(d)
                ELSE [d EXCEPT !.pc = "lm_copy", !.k = 1]]
    /\ UNCHANGED <<m_seq, m_metrics, b_seq, b_fn, b_state, cp, m_hist, b_hist, spscVars, regVars, memVars, polVars>>

LoadMetricsCopy(r) ==
    /\ dp[r].pc = "lm_copy"
    /\ LET d == [dp[r] EXCEPT !.snap = CopyField(@, m_metrics, dp[r].k)] IN
       dp' = [dp EXCEPT ![r] =
                IF d.k = NFields THEN [d EXCEPT !.pc = "lm_s2", !.k = 0]
                ELSE [d EXCEPT !.k = @ + 1]]
    /\ UNCHANGED <<m_seq, m_metrics, b_seq, b_fn, b_state, cp, m_hist, b_hist, spscVars, regVars, memVars, polVars>>

LoadMetricsS2(r) ==
    /\ dp[r].pc = "lm_s2"
    /\ dp' = [dp EXCEPT ![r] =
                IF MetricsAccept(dp[r].s1, m_seq)
                THEN [dp[r] EXCEPT !.pc = "done", !.out = dp[r].snap, !.ok = TRUE]
                ELSE LoadRetry(dp[r])]
    /\ UNCHANGED <<m_seq, m_metrics, b_seq, b_fn, b_state, cp, m_hist, b_hist, spscVars, regVars, memVars, polVars>>

(***************************************************************************)
(* dp::WorkerPolicyView::choose, dp::select_path, dp::snapshot_binding     *)
(***************************************************************************)
\* After a failed attempt: the next attempt, or the exhausted loop:
\* out_fn=nullptr; out_state=nullptr; return false; and select_path's return 0.
SnapshotRetry(d) ==
    IF LoopContinues(NextAttempt(d.i))
    THEN [d EXCEPT !.pc = "sb_s1", !.i = NextAttempt(d.i), !.fn = Null, !.st = Null]
    ELSE [d EXCEPT !.pc = "done", !.i = NextAttempt(d.i), !.fn = Null, !.st = Null,
                   !.out_fn = Null, !.out_state = Null, !.ok = FALSE, !.ret = 0]

\* WorkerPolicyView::choose: binding ? select_path(*binding, c, p) : 0
SelectCall(r, view) ==
    /\ dp[r].pc = "idle"
    /\ dp' = [dp EXCEPT ![r] =
                IF view = Null
                THEN [DpIdle EXCEPT !.pc = "done", !.op = "select", !.ret = 0]
                ELSE [DpIdle EXCEPT !.pc = "sb_s1", !.op = "select", !.view = view,
                                    !.ovl = CpOnBinding,
                                    !.clr = Unbound \/ cp.op = "clear",
                                    !.unb0 = Unbound /\ ~CpOnBinding,
                                    !.bound0 = IF Unbound \/ CpOnBinding THEN Null
                                               ELSE b_state]]
    /\ UNCHANGED <<m_seq, m_metrics, b_seq, b_fn, b_state, cp, m_hist, b_hist, spscVars, regVars, memVars, polVars>>

SnapshotS1(r) ==
    /\ dp[r].pc = "sb_s1"
    /\ LET d == [dp[r] EXCEPT !.s1 = b_seq, !.tries = @ + 1] IN
       dp' = [dp EXCEPT ![r] =
                IF WriterActive(b_seq) THEN SnapshotRetry(d)
                ELSE [d EXCEPT !.pc = "sb_fn"]]
    /\ UNCHANGED <<m_seq, m_metrics, b_seq, b_fn, b_state, cp, m_hist, b_hist, spscVars, regVars, memVars, polVars>>

SnapshotFn(r) ==
    /\ dp[r].pc = "sb_fn"
    /\ dp' = [dp EXCEPT ![r] = [@ EXCEPT !.fn = b_fn, !.pc = "sb_st"]]
    /\ UNCHANGED <<m_seq, m_metrics, b_seq, b_fn, b_state, cp, m_hist, b_hist, spscVars, regVars, memVars, polVars>>

SnapshotSt(r) ==
    /\ dp[r].pc = "sb_st"
    /\ dp' = [dp EXCEPT ![r] = [@ EXCEPT !.st = b_state, !.pc = "sb_s2"]]
    /\ UNCHANGED <<m_seq, m_metrics, b_seq, b_fn, b_state, cp, m_hist, b_hist, spscVars, regVars, memVars, polVars>>

\* The recheck; on acceptance out_fn = fn; out_state = st; return fn && st;
\* and select_path's if (!snapshot_binding(b, fn, st)) return 0;
SnapshotS2(r) ==
    /\ dp[r].pc = "sb_s2"
    /\ LET d == dp[r]
           bound == BothNonNull(d.fn, d.st) IN
       dp' = [dp EXCEPT ![r] =
                IF BindingAccept(d.s1, b_seq)
                THEN [d EXCEPT !.out_fn = d.fn, !.out_state = d.st, !.ok = bound,
                               !.pc = IF bound THEN "sp_call" ELSE "done",
                               !.ret = 0, !.fn = Null, !.st = Null]
                ELSE SnapshotRetry(d)]
    /\ UNCHANGED <<m_seq, m_metrics, b_seq, b_fn, b_state, cp, m_hist, b_hist, spscVars, regVars, memVars, polVars>>

\* return fn(st, cands, pkt);
SelectInvoke(r) ==
    /\ dp[r].pc = "sp_call"
    /\ \E v \in ThunkResults(dp[r].out_fn, dp[r].out_state) :
          dp' = [dp EXCEPT ![r] = [@ EXCEPT !.pc = "done", !.ret = v, !.invoked = TRUE]]
    /\ UNCHANGED <<m_seq, m_metrics, b_seq, b_fn, b_state, cp, m_hist, b_hist, spscVars, regVars, memVars, polVars>>

\* The call has returned; the thread is free to make its next call.
DpReturn(r) ==
    /\ dp[r].pc = "done"
    /\ dp' = [dp EXCEPT ![r] = DpIdle]
    /\ UNCHANGED <<m_seq, m_metrics, b_seq, b_fn, b_state, cp, m_hist, b_hist, spscVars, regVars, memVars, polVars>>

(***************************************************************************)
(* The seqlock system: one CP thread, the DP threads.                      *)
(***************************************************************************)
NextSeqlock ==
    \/ \E m \in MetricsArgs : UpdateMetricsLoad(m)
    \/ UpdateMetricsEnter
    \/ UpdateMetricsCopy
    \/ UpdateMetricsPublish
    \/ \E p \in Policies : PublishLoad(p)
    \/ PublishEnter
    \/ PublishState
    \/ PublishFn
    \/ PublishExit
    \/ ClearLoad
    \/ ClearEnter
    \/ ClearFn
    \/ ClearState
    \/ ClearExit
    \/ \E r \in Readers : LoadMetricsCall(r)
    \/ \E r \in Readers : LoadMetricsS1(r)
    \/ \E r \in Readers : LoadMetricsCopy(r)
    \/ \E r \in Readers : LoadMetricsS2(r)
    \/ \E r \in Readers, view \in {Null, "binding"} : SelectCall(r, view)
    \/ \E r \in Readers : SnapshotS1(r)
    \/ \E r \in Readers : SnapshotFn(r)
    \/ \E r \in Readers : SnapshotSt(r)
    \/ \E r \in Readers : SnapshotS2(r)
    \/ \E r \in Readers : SelectInvoke(r)
    \/ \E r \in Readers : DpReturn(r)

(***************************************************************************)
(* SpscQueue<T>                                                            *)
(***************************************************************************)
\* x & y on naturals, bit by bit.
RECURSIVE BitAnd(_, _)
BitAnd(x, y) ==
    IF x = 0 \/ y = 0 THEN 0
    ELSE (x % 2) * (y % 2) + 2 * BitAnd(x \div 2, y \div 2)

\* with_capacity accepts the powers of two.
Capacities == {2 ^ k : k \in 0..MaxCapBits}

\* A slot of the storage from operator new[] that was never constructed.
Uninit == -1
\* A slot whose element was moved out by pop (a moved-from unique_ptr is null).
Moved == 0

\* (t + 1) & mask_
NextIndex(t) == BitAnd(t + 1, q_cap - 1)

\* Variant: push never reports full and overwrites unread slots.
PushFullNever(n, head) == FALSE

\* Variant: push keeps two slots open instead of one.
PushFullEarly(n, head) == n = head \/ BitAnd(n + 1, q_cap - 1) = head

\* push: if (n == head_.load(acquire)) return false; // full
PushFull(n, head) == n = head

\* Variant: pop never reports empty and reads whatever the slot holds.
PopEmptyNever(h, tail) == FALSE

\* pop: if (h == tail_.load(acquire)) return false; // empty
PopEmpty(h, tail) == h = tail

\* full(): ((t + 1) & mask_) == head_
Full == NextIndex(q_tail) = q_head

\* empty(): head_ == tail_
Empty == q_head = q_tail

\* approx_size(): (t + capacity_ - h) & mask_
ApproxSize == BitAnd(q_tail + q_cap - q_head, q_cap - 1)

ProdIdle == [pc |-> "idle", i |-> 0, t |-> 0, n |-> 0, full |-> FALSE, sz |-> 0]

ConsIdle == [pc |-> "idle", consumed |-> 0, h |-> 0, empty |-> FALSE, out |-> Moved]

InitSpsc ==
    /\ q_cap \in Capacities
    /\ q_elem \in {"trivial", "move_only"}
    /\ q_head = 0
    /\ q_tail = 0
    /\ q_buf = [j \in 0..(q_cap - 1) |-> Uninit]
    /\ prod = ProdIdle
    /\ cons = ConsIdle
    /\ pushed = <<>>
    /\ popped = <<>>
    /\ crashed = FALSE

\* The value the producer sends in its i-th accepted push (i from 0).
ValueOf(i) == i + 1

(* Producer: for (i = 0; i < N;) { if (q->push(v_i)) ++i; else yield(); }  *)
\* push: const std::size_t t = tail_.load(relaxed); n = (t + 1) & mask_;
PushLoadTail ==
    /\ ~crashed /\ prod.pc \in {"idle", "returned"} /\ prod.i < NumValues
    /\ prod' = [prod EXCEPT !.pc = "check", !.t = q_tail, !.n = NextIndex(q_tail)]
    /\ UNCHANGED <<q_cap, q_elem, q_head, q_tail, q_buf, cons, pushed, popped, crashed>>
    /\ UNCHANGED <<seqVars, regVars, memVars, polVars>>

\* push: if (n == head_.load(acquire)) return false;
PushLoadHead ==
    /\ ~crashed /\ prod.pc = "check"
    /\ prod' = IF PushFull(prod.n, q_head)
               THEN [prod EXCEPT !.pc = "returned", !.full = TRUE,
                                 !.sz = Len(pushed) - Len(popped)]
               ELSE [prod EXCEPT !.pc = "store", !.full = FALSE,
                                 !.sz = Len(pushed) - Len(popped)]
    /\ UNCHANGED <<q_cap, q_elem, q_head, q_tail, q_buf, cons, pushed, popped, crashed>>
    /\ UNCHANGED <<seqVars, regVars, memVars, polVars>>

\* Variant: push stores the element one slot further.
PushStoreAtNext ==
    /\ ~crashed /\ prod.pc = "store"
    /\ q_buf' = [q_buf EXCEPT ![prod.n] = ValueOf(prod.i)]
    /\ prod' = [prod EXCEPT !.pc = "publish"]
    /\ UNCHANGED <<q_cap, q_elem, q_head, q_tail, cons, pushed, popped, crashed>>
    /\ UNCHANGED <<seqVars, regVars, memVars, polVars>>

\* push: buf_[t] = std::move(v);  The assignment operator of a move-only T
\* releases what the slot held: on storage that was never constructed it
\* reads an indeterminate pointer, which is null or is not.
PushStore ==
    /\ ~crashed /\ prod.pc = "store"
    /\ \/ /\ q_buf' = [q_buf EXCEPT ![prod.t] = ValueOf(prod.i)]
          /\ prod' = [prod EXCEPT !.pc = "publish"]
          /\ UNCHANGED crashed
       \/ /\ q_elem = "move_only" /\ q_buf[prod.t] = Uninit
          /\ crashed' = TRUE
          /\ UNCHANGED <<q_buf, prod>>
    /\ UNCHANGED <<q_cap, q_elem, q_head, q_tail, cons, pushed, popped>>
    /\ UNCHANGED <<seqVars, regVars, memVars, polVars>>

\* push: tail_.store(n, release); return true;  and the caller's ++i
PushPublish ==
    /\ ~crashed /\ prod.pc = "publish"
    /\ q_tail' = prod.n
    /\ pushed' = Append(pushed, ValueOf(prod.i))
    /\ prod' = [prod EXCEPT !.pc = "returned", !.i = @ + 1]
    /\ UNCHANGED <<q_cap, q_elem, q_head, q_buf, cons, popped, crashed>>
    /\ UNCHANGED <<seqVars, regVars, memVars, polVars>>

(* Consumer: while (consumed < N) { if (q->pop(v)) { out.push_back(v);      *)
(* ++consumed; } else yield(); }                                           *)
\* pop: const std::size_t h = head_.load(relaxed);
PopLoadHead ==
    /\ ~crashed /\ cons.pc \in {"idle", "returned"} /\ cons.consumed < NumValues
    /\ cons' = [cons EXCEPT !.pc = "check", !.h = q_head]
    /\ UNCHANGED <<q_cap, q_elem, q_head, q_tail, q_buf, prod, pushed, popped, crashed>>
    /\ UNCHANGED <<seqVars, regVars, memVars, polVars>>

\* pop: if (h == tail_.load(acquire)) return false;
PopLoadTail ==
    /\ ~crashed /\ cons.pc = "check"
    /\ cons' = IF PopEmpty(cons.h, q_tail)
               THEN [cons EXCEPT !.pc = "returned", !.empty = TRUE]
               ELSE [cons EXCEPT !.pc = "take", !.empty = FALSE]
    /\ UNCHANGED <<q_cap, q_elem, q_head, q_tail, q_buf, prod, pushed, popped, crashed>>
    /\ UNCHANGED <<seqVars, regVars, memVars, polVars>>

\* pop: out = std::move(buf_[h]);  A moved-from unique_ptr is null.
PopTake ==
    /\ ~crashed /\ cons.pc = "take"
    /\ cons' = [cons EXCEPT !.pc = "publish", !.out = q_buf[cons.h]]
    /\ q_buf' = IF q_elem = "move_only" THEN [q_buf EXCEPT ![cons.h] = Moved] ELSE q_buf
    /\ UNCHANGED <<q_cap, q_elem, q_head, q_tail, prod, pushed, popped, crashed>>
    /\ UNCHANGED <<seqVars, regVars, memVars, polVars>>

\* pop: head_.store((h + 1) & mask_, release); return true;  and the
\* caller's out.push_back(v); ++consumed
PopPublish ==
    /\ ~crashed /\ cons.pc = "publish"
    /\ q_head' = NextIndex(cons.h)
    /\ popped' = Append(popped, cons.out)
    /\ cons' = [cons EXCEPT !.pc = "returned", !.consumed = @ + 1]
    /\ UNCHANGED <<q_cap, q_elem, q_tail, q_buf, prod, pushed, crashed>>
    /\ UNCHANGED <<seqVars, regVars, memVars, polVars>>

ProducerStep == PushLoadTail \/ PushLoadHead \/ PushStore \/ PushPublish

ConsumerStep == PopLoadHead \/ PopLoadTail \/ PopTake \/ PopPublish

NextSpsc == ProducerStep \/ ConsumerStep

(***************************************************************************)
(* SpscQueue::with_capacity, the factory.                                  *)
(***************************************************************************)
\* The element types the repository instantiates the queue with.
ElemTypes == {"trivial", "move_only"}

\* SpscTraits<T>::ok: trivially copyable or nothrow move constructible.
TraitsOk(elem) == elem \in {"trivial", "move_only"}

\* The capacities a caller may ask for.
Requests == 0..(2 ^ MaxCapBits + 1)

\* Variant: the power-of-two test looks at capacity + 1 instead of capacity - 1.
WithCapacityWrongMask(c, elem) ==
    IF c = 0 THEN "CapacityZero"
    ELSE IF BitAnd(c, c + 1) # 0 THEN "CapacityNotPowerOfTwo"
    ELSE IF ~TraitsOk(elem) THEN "ElementNotNothrowMovable"
    ELSE "Ok"

\* with_capacity's checks, in the order of the code.  operator new[] returns
\* storage or throws, so the AllocationFailed test after it is never true.
WithCapacityResult(c, elem) ==
    IF c = 0 THEN "CapacityZero"
    ELSE IF BitAnd(c, c - 1) # 0 THEN "CapacityNotPowerOfTwo"
    ELSE IF ~TraitsOk(elem) THEN "ElementNotNothrowMovable"
    ELSE "Ok"

\* SpscQueue() noexcept = default: the empty shell.
InitSpscShell ==
    /\ q_cap = 0
    /\ q_elem = "trivial"
    /\ q_head = 0
    /\ q_tail = 0
    /\ q_buf = [j \in {} |-> Uninit]
    /\ prod = ProdIdle
    /\ cons = ConsIdle
    /\ pushed = <<>>
    /\ popped = <<>>
    /\ crashed = FALSE

\* with_capacity(capacity_pow2): an error, or q.buf_, q.capacity_, q.mask_.
WithCapacityCall(c, elem) ==
    /\ f_res = "none" /\ p_pc = "none"
    /\ f_req' = c
    /\ f_res' = WithCapacityResult(c, elem)
    /\ IF f_res' = "Ok"
       THEN /\ q_cap' = c
            /\ q_elem' = elem
            /\ q_buf' = [j \in 0..(c - 1) |-> Uninit]
       ELSE UNCHANGED <<q_cap, q_elem, q_buf>>
    /\ UNCHANGED <<q_head, q_tail, prod, cons, pushed, popped, crashed>>
    /\ UNCHANGED <<p_cap, p_pc, p_i, p_storage, p_written, p_out, p_free, p_released,
                   p_nacq, p_ops, p_bad, rx, tx>>
    /\ UNCHANGED <<seqVars, regVars, polVars>>

\* The queue the factory returned, used by its producer.
FactoryProducer == f_res = "Ok" /\ ProducerStep

\* The queue the factory returned, used by its consumer.
FactoryConsumer == f_res = "Ok" /\ ConsumerStep

NextFactory ==
    \/ \E c \in Requests, elem \in ElemTypes : WithCapacityCall(c, elem)
    \/ FactoryProducer
    \/ FactoryConsumer

(***************************************************************************)
(* PacketPool: descriptors plus an SpscQueue<PacketHandle> free list.      *)
(* acquire pops (the RX thread), release pushes (the TX thread).           *)
(***************************************************************************)
\* The pool capacities a caller may ask for.
PoolRequests == 0..(2 ^ MaxPoolBits + 1)

\* Every value a PacketHandle variable takes in the model.
HandleSpace == Uninit..(2 ^ MaxPoolBits + 1)

\* No handle: the free list was empty.
NoHandle == -2

\* Packet's default member initialisers.
DefaultPacket == [length |-> 0, meta |-> 0]

\* The values a caller writes into a descriptor through get(h).
DescValues == {1, 2}

\* pkt.length = 100 + i; pkt.meta = i;
DescFor(v) == [length |-> 100 + v, meta |-> v]

\* Variant: the free ring gets the pool's capacity, not twice that.
RingCapacitySame(n) == n

\* with_capacity(capacity_pow2 * 2)
RingCapacityFor(n) == 2 * n

\* Variant: seeding starts at handle 1.
SeedHandleFromOne(i) == i + 1

\* static_cast<PacketHandle>(i)
SeedHandle(i) == i

RxIdle == [pc |-> "idle", h |-> 0, out |-> 0, ok |-> FALSE, sz |-> 0, exp |-> NoHandle]

TxIdle == [pc |-> "idle", t |-> 0, n |-> 0, hd |-> 0, ok |-> FALSE, sz |-> 0,
           seed |-> FALSE, legit |-> FALSE, over |-> FALSE]

\* No factory call and no pool yet.
InitMemUnused ==
    /\ f_req = 0
    /\ f_res = "none"
    /\ p_cap = 0
    /\ p_pc = "none"
    /\ p_i = 0
    /\ p_storage = [h \in {} |-> DefaultPacket]
    /\ p_written = [h \in {} |-> DefaultPacket]
    /\ p_out = [h \in HandleSpace |-> 0]
    /\ p_free = <<>>
    /\ p_released = FALSE
    /\ p_nacq = 0
    /\ p_ops = 0
    /\ p_bad = 0
    /\ rx = RxIdle
    /\ tx = TxIdle

\* PacketPool(capacity_pow2): capacity_, storage_, the ring from the factory
\* (abort if it reports an error), then the seeding loop.
PoolCtor(n) ==
    /\ p_pc = "none" /\ f_res = "none"
    /\ p_cap' = n
    /\ p_storage' = [h \in 0..(n - 1) |-> DefaultPacket]
    /\ p_written' = [h \in 0..(n - 1) |-> DefaultPacket]
    /\ IF WithCapacityResult(RingCapacityFor(n), "trivial") = "Ok"
       THEN /\ p_pc' = "seeding"
            /\ q_cap' = RingCapacityFor(n)
            /\ q_buf' = [j \in 0..(RingCapacityFor(n) - 1) |-> Uninit]
       ELSE /\ p_pc' = "aborted"
            /\ UNCHANGED <<q_cap, q_buf>>
    /\ p_i' = 0
    /\ UNCHANGED <<q_elem, q_head, q_tail, prod, cons, pushed, popped, crashed>>
    /\ UNCHANGED <<f_req, f_res, p_out, p_free, p_released, p_nacq, p_ops, p_bad, rx, tx>>
    /\ UNCHANGED <<seqVars, regVars, polVars>>

\* for (i = 0; i < capacity_; ++i) { ok = free_ring_.push(handle i); ...
SeedCall ==
    /\ p_pc = "seeding" /\ tx.pc = "idle" /\ p_i < p_cap
    /\ tx' = [TxIdle EXCEPT !.pc = "load_tail", !.hd = SeedHandle(p_i), !.seed = TRUE]
    /\ UNCHANGED <<f_req, f_res, p_cap, p_pc, p_i, p_storage, p_written, p_out, p_free,
                   p_released, p_nacq, p_ops, p_bad, rx>>
    /\ UNCHANGED <<seqVars, spscVars, regVars, polVars>>

\* ... assert(ok && "seeding failed"); }  A failed assert aborts, unless the
\* build defines NDEBUG and the loop goes on.
SeedReturn ==
    /\ p_pc = "seeding" /\ tx.pc = "returned" /\ tx.seed
    /\ \/ /\ p_i' = p_i + 1
          /\ p_pc' = IF p_i + 1 < p_cap THEN "seeding" ELSE "ready"
       \/ /\ ~tx.ok
          /\ p_pc' = "aborted"
          /\ UNCHANGED p_i
    /\ tx' = TxIdle
    /\ UNCHANGED <<f_req, f_res, p_cap, p_storage, p_written, p_out, p_free,
                   p_released, p_nacq, p_ops, p_bad, rx>>
    /\ UNCHANGED <<seqVars, spscVars, regVars, polVars>>

\* release(handle): return free_ring_.push(handle);  The caller gives back a
\* handle it holds, or (a logic error) one it does not hold.
ReleaseCall(h) ==
    /\ p_pc = "ready" /\ tx.pc = "idle"
    /\ h \in 0..(p_cap - 1)
    /\ LET legit == p_out[h] > 0 IN
       /\ legit \/ p_bad < MaxBadReleases
       /\ p_out' = IF legit THEN [p_out EXCEPT ![h] = @ - 1] ELSE p_out
       /\ p_bad' = IF legit THEN p_bad ELSE p_bad + 1
       /\ tx' = [TxIdle EXCEPT !.pc = "load_tail", !.hd = h, !.legit = legit,
                               !.over = /\ \A g \in HandleSpace : p_out[g] = 0
                                        /\ Len(p_free) = p_cap]
    /\ p_released' = TRUE
    /\ p_ops < MaxPoolOps
    /\ p_ops' = p_ops + 1
    /\ UNCHANGED <<f_req, f_res, p_cap, p_pc, p_i, p_storage, p_written, p_free, p_nacq, rx>>
    /\ UNCHANGED <<seqVars, spscVars, regVars, polVars>>

\* push: t = tail_.load(relaxed); n = (t + 1) & mask_;
PoolPushLoadTail ==
    /\ tx.pc = "load_tail"
    /\ tx' = [tx EXCEPT !.pc = "check", !.t = q_tail, !.n = NextIndex(q_tail)]
    /\ UNCHANGED <<f_req, f_res, p_cap, p_pc, p_i, p_storage, p_written, p_out, p_free,
                   p_released, p_nacq, p_ops, p_bad, rx>>
    /\ UNCHANGED <<seqVars, spscVars, regVars, polVars>>

\* push: if (n == head_.load(acquire)) return false;
PoolPushLoadHead ==
    /\ tx.pc = "check"
    /\ tx' = IF PushFull(tx.n, q_head)
             THEN [tx EXCEPT !.pc = "returned", !.ok = FALSE, !.sz = Len(p_free)]
             ELSE [tx EXCEPT !.pc = "store", !.sz = Len(p_free)]
    /\ UNCHANGED <<f_req, f_res, p_cap, p_pc, p_i, p_storage, p_written, p_out, p_free,
                   p_released, p_nacq, p_ops, p_bad, rx>>
    /\ UNCHANGED <<seqVars, spscVars, regVars, polVars>>

\* push: buf_[t] = v;
PoolPushStore ==
    /\ tx.pc = "store"
    /\ q_buf' = [q_buf EXCEPT ![tx.t] = tx.hd]
    /\ tx' = [tx EXCEPT !.pc = "publish"]
    /\ UNCHANGED <<q_cap, q_elem, q_head, q_tail, prod, cons, pushed, popped, crashed>>
    /\ UNCHANGED <<f_req, f_res, p_cap, p_pc, p_i, p_storage, p_written, p_out, p_free,
                   p_released, p_nacq, p_ops, p_bad, rx>>
    /\ UNCHANGED <<seqVars, regVars, polVars>>

\* push: tail_.store(n, release); return true;
PoolPushPublish ==
    /\ tx.pc = "publish"
    /\ q_tail' = tx.n
    /\ p_free' = Append(p_free, tx.hd)
    /\ tx' = [tx EXCEPT !.pc = "returned", !.ok = TRUE]
    /\ UNCHANGED <<q_cap, q_elem, q_head, q_buf, prod, cons, pushed, popped, crashed>>
    /\ UNCHANGED <<f_req, f_res, p_cap, p_pc, p_i, p_storage, p_written, p_out,
                   p_released, p_nacq, p_ops, p_bad, rx>>
    /\ UNCHANGED <<seqVars, regVars, polVars>>

\* release has returned; a handle the ring refused stays with its holder.
ReleaseReturn ==
    /\ p_pc = "ready" /\ tx.pc = "returned" /\ ~tx.seed
    /\ p_out' = IF ~tx.ok /\ tx.legit THEN [p_out EXCEPT ![tx.hd] = @ + 1] ELSE p_out
    /\ tx' = TxIdle
    /\ UNCHANGED <<f_req, f_res, p_cap, p_pc, p_i, p_storage, p_written, p_free,
                   p_released, p_nacq, p_ops, p_bad, rx>>
    /\ UNCHANGED <<seqVars, spscVars, regVars, polVars>>

\* acquire(out_handle): return free_ring_.pop(out_handle);
\* pop: h = head_.load(relaxed);
PoolPopLoadHead ==
    /\ p_pc = "ready" /\ rx.pc = "idle"
    /\ p_ops < MaxPoolOps
    /\ p_ops' = p_ops + 1
    /\ rx' = [RxIdle EXCEPT !.pc = "check", !.h = q_head]
    /\ UNCHANGED <<f_req, f_res, p_cap, p_pc, p_i, p_storage, p_written, p_out, p_free,
                   p_released, p_nacq, p_bad, tx>>
    /\ UNCHANGED <<seqVars, spscVars, regVars, polVars>>

\* pop: if (h == tail_.load(acquire)) return false;
PoolPopLoadTail ==
    /\ rx.pc = "check"
    /\ rx' = IF PopEmpty(rx.h, q_tail)
             THEN [rx EXCEPT !.pc = "returned", !.ok = FALSE, !.sz = Len(p_free)]
             ELSE [rx EXCEPT !.pc = "take", !.sz = Len(p_free)]
    /\ UNCHANGED <<f_req, f_res, p_cap, p_pc, p_i, p_storage, p_written, p_out, p_free,
                   p_released, p_nacq, p_ops, p_bad, tx>>
    /\ UNCHANGED <<seqVars, spscVars, regVars, polVars>>

\* pop: out = std::move(buf_[h]);
PoolPopTake ==
    /\ rx.pc = "take"
    /\ rx' = [rx EXCEPT !.pc = "publish", !.out = q_buf[rx.h]]
    /\ UNCHANGED <<f_req, f_res, p_cap, p_pc, p_i, p_storage, p_written, p_out, p_free,
                   p_released, p_nacq, p_ops, p_bad, tx>>
    /\ UNCHANGED <<seqVars, spscVars, regVars, polVars>>

\* pop: head_.store((h + 1) & mask_, release); return true;
PoolPopPublish ==
    /\ rx.pc = "publish"
    /\ q_head' = NextIndex(rx.h)
    /\ rx' = [rx EXCEPT !.pc = "returned", !.ok = TRUE,
                        !.exp = IF p_free = <<>> THEN NoHandle ELSE Head(p_free)]
    /\ p_free' = IF p_free = <<>> THEN <<>> ELSE Tail(p_free)
    /\ p_nacq' = IF p_released THEN p_nacq ELSE p_nacq + 1
    /\ UNCHANGED <<q_cap, q_elem, q_tail, q_buf, prod, cons, pushed, popped, crashed>>
    /\ UNCHANGED <<f_req, f_res, p_cap, p_pc, p_i, p_storage, p_written, p_out,
                   p_released, p_ops, p_bad, tx>>
    /\ UNCHANGED <<seqVars, regVars, polVars>>

\* acquire has returned; on success the caller holds the handle.
AcquireReturn ==
    /\ rx.pc = "returned"
    /\ p_out' = IF rx.ok /\ rx.out \in HandleSpace
                THEN [p_out EXCEPT ![rx.out] = @ + 1] ELSE p_out
    /\ rx' = RxIdle
    /\ UNCHANGED <<f_req, f_res, p_cap, p_pc, p_i, p_storage, p_written, p_free,
                   p_released, p_nacq, p_ops, p_bad, tx>>
    /\ UNCHANGED <<seqVars, spscVars, regVars, polVars>>

\* auto& pkt = pool.get(h); pkt.length = ...; pkt.meta = ...;  by the holder
\* of handle h.
WriteDesc(h, v) ==
    /\ p_pc = "ready"
    /\ h \in 0..(p_cap - 1) /\ p_out[h] > 0
    /\ p_storage[h] # DescFor(v)
    /\ p_storage' = [p_storage EXCEPT ![h] = DescFor(v)]
    /\ p_written' = [p_written EXCEPT ![h] = DescFor(v)]
    /\ p_ops < MaxPoolOps
    /\ p_ops' = p_ops + 1
    /\ UNCHANGED <<f_req, f_res, p_cap, p_pc, p_i, p_out, p_free, p_released, p_nacq,
                   p_bad, rx, tx>>
    /\ UNCHANGED <<seqVars, spscVars, regVars, polVars>>

NextPool ==
    \/ \E n \in PoolRequests : PoolCtor(n)
    \/ SeedCall
    \/ SeedReturn
    \/ \E h \in HandleSpace : ReleaseCall(h)
    \/ PoolPushLoadTail
    \/ PoolPushLoadHead
    \/ PoolPushStore
    \/ PoolPushPublish
    \/ ReleaseReturn
    \/ PoolPopLoadHead
    \/ PoolPopLoadTail
    \/ PoolPopTake
    \/ PoolPopPublish
    \/ AcquireReturn
    \/ \E h \in HandleSpace, v \in DescValues : WriteDesc(h, v)

(***************************************************************************)
(* ServiceRegistry: RCU by atomic shared_ptr snapshot swap.                *)
(***************************************************************************)
\* Limits
MaxServices == 128
MaxPopsPerService == 32
MaxIdLen == 32
MaxRegionLen == 32
MaxIpLen == 64

\* A std::string is a sequence of characters.
IdChars ==
    {"_", "-", "0", "1", "2", "3", "4", "5", "6", "7", "8", "9",
     "A", "B", "C", "D", "E", "F", "G", "H", "I", "J", "K", "L", "M",
     "N", "O", "P", "Q", "R", "S", "T", "U", "V", "W", "X", "Y", "Z",
     "a", "b", "c", "d", "e", "f", "g", "h", "i", "j", "k", "l", "m",
     "n", "o", "p", "q", "r", "s", "t", "u", "v", "w", "x", "y", "z"}

\* validateId(id, maxLen)
ValidateId(id, maxLen) ==
    /\ ~(Len(id) = 0 \/ Len(id) > maxLen)
    /\ ~(Len(id) < 2)
    /\ \A j \in 1..Len(id) : id[j] \in IdChars

\* The address literals of the model, with what inet_pton makes of each.
Ip4A == [text |-> "203.0.113.1", len |-> 11, inet4 |-> TRUE, inet6 |-> FALSE]
Ip4B == [text |-> "203.0.113.3", len |-> 11, inet4 |-> TRUE, inet6 |-> FALSE]
Ip6A == [text |-> "2001:db8::1", len |-> 11, inet4 |-> FALSE, inet6 |-> TRUE]
IpBad == [text |-> "not_an_ip", len |-> 9, inet4 |-> FALSE, inet6 |-> FALSE]

\* validateIp(ip)
ValidateIp(ip) ==
    /\ ~(ip.len = 0 \/ ip.len > MaxIpLen)
    /\ (ip.inet4 \/ ip.inet6)

\* std::adjacent_find on the sorted ids: some id occurs twice.
HasDuplicateIds(pops) ==
    \E j, k \in 1..Len(pops) : j < k /\ pops[j].id = pops[k].id

\* Variant: validatePops without the duplicate-id test.
ValidatePopsNoDupCheck(pops) ==
    /\ ~(Len(pops) = 0 \/ Len(pops) > MaxPopsPerService)
    /\ \A j \in 1..Len(pops) :
          /\ ValidateId(pops[j].id, MaxIdLen)
          /\ ValidateId(pops[j].region, MaxRegionLen)
          /\ ValidateIp(pops[j].ip)

\* validatePops(pops)
ValidatePops(pops) ==
    /\ ~(Len(pops) = 0 \/ Len(pops) > MaxPopsPerService)
    /\ \A j \in 1..Len(pops) :
          /\ ValidateId(pops[j].id, MaxIdLen)
          /\ ValidateId(pops[j].region, MaxRegionLen)
          /\ ValidateIp(pops[j].ip)
    /\ ~HasDuplicateIds(pops)

\* Pop{.id, .region, .ip} with the default weight and health.
MkPop(id, region, ip) ==
    [id |-> id, region |-> region, ip |-> ip, weight |-> 100, health |-> "Up"]

ListA == << MkPop(<<"a", "1">>, <<"r", "a">>, Ip4A), MkPop(<<"a", "2">>, <<"r", "a">>, Ip6A) >>
ListB == << MkPop(<<"b", "1">>, <<"r", "b">>, Ip4B) >>
ListDup == << MkPop(<<"l", "a">>, <<"r", "1">>, Ip4A), MkPop(<<"l", "a">>, <<"r", "2">>, Ip4B) >>
ListBadIp == << MkPop(<<"n", "y">>, <<"r", "1">>, IpBad) >>
\* An empty span, and one PoP more than MaxPopsPerService (distinct valid ids).
ListEmpty == << >>
Digits == <<"0", "1", "2", "3", "4", "5", "6", "7", "8", "9">>
ListTooLong ==
    [j \in 1..(MaxPopsPerService + 1) |->
        MkPop(<<"p", Digits[(j \div 10) + 1], Digits[(j % 10) + 1]>>, <<"r", "1">>, Ip4A)]

\* Inputs at the edges of the limits: a one-character region, as many PoPs
\* as MaxPopsPerService, an id of MaxIdLen characters.
ListShortRegion == << MkPop(<<"p", "p">>, <<"r">>, Ip4B) >>
ListFull == [j \in 1..MaxPopsPerService |-> ListTooLong[j]]
IdMaxLen == [j \in 1..MaxIdLen |-> "a"]

\* The inputs the writer draws its calls from.
RegIds == { <<"s", "v", "c">>, <<"s", "2">>, <<"x">>, <<"b", "!">> }
RegLists == {ListA, ListB, ListDup, ListBadIp, ListEmpty, ListTooLong}

\* The inputs of a writer that stays inside the limits and goes to their edges.
EdgeIds == { <<"s", "2">>, IdMaxLen }
EdgeLists == {ListB, ListShortRegion, ListFull}
RegModes == {"Add", "Replace", "Upsert"}

\* A Map is a function from its keys to their PopLists.
EmptyMap == [k \in {} |-> << >>]
Keys(m) == DOMAIN m
\* Variant: an emplace that appends to the list of a key that is present.
EmplaceAppend(m, id, pops) ==
    IF id \in DOMAIN m THEN [m EXCEPT ![id] = @ \o pops]
    ELSE [k \in (DOMAIN m) \cup {id} |-> IF k = id THEN pops ELSE m[k]]
\* next->emplace(id, pops): inserts unless the key is present.
Emplace(m, id, pops) ==
    IF id \in DOMAIN m THEN m
    ELSE [k \in (DOMAIN m) \cup {id} |-> IF k = id THEN pops ELSE m[k]]
\* Variant: an erase that empties the map.
EraseAll(m, id) == [k \in {} |-> << >>]
\* next->erase(it)
Erase(m, id) == [k \in (DOMAIN m) \ {id} |-> m[k]]
\* it->second with its first j elements assigned from pops (vector copy
\* assignment copies over the old elements one by one).
AssignPrefix(old, pops, j) ==
    [k \in 1..Len(old) |-> IF k <= j /\ k <= Len(pops) THEN pops[k] ELSE old[k]]
\* How many elements the assignment copies over before it fixes the length.
AssignSteps(old, pops) == IF Len(old) < Len(pops) THEN Len(old) ELSE Len(pops)

\* A heap object: a live Map, one whose last shared_ptr was dropped, or
\* storage make_shared has not handed out yet.
Live(m) == [st |-> "live", map |-> m]
Freed == [st |-> "freed", map |-> EmptyMap]
Unalloc == [st |-> "unalloc", map |-> EmptyMap]
Objs == 0..MaxRegOps
RegReaders == {"rd1"}

\* What a caller can observe of the registry before it calls a mutation:
\* the published map, the version, the counters and the number of publishes.
NoPre ==
    [map |-> EmptyMap, version |-> 0, pubs |-> 0,
     stats |-> [adds |-> 0, replaces |-> 0, upserts |-> 0, removes |-> 0, failures |-> 0]]
Observed ==
    [map |-> r_heap[r_map].map, version |-> r_version, pubs |-> Len(r_hist),
     stats |-> r_stats]

\* The writer's preceding call, when that call published a snapshot: its
\* operation, its arguments and the map it found.
NoLast == [op |-> "none", id |-> << >>, pops |-> << >>, before |-> EmptyMap]
LastCall(w) ==
    IF w.pc = "returned" /\ w.ret \in {"Ok", "true", "void"}
    THEN [op |-> w.op, id |-> w.id, pops |-> w.pops, before |-> w.pre.map]
    ELSE NoLast

WrIdle ==
    [pc |-> "idle", op |-> "none", id |-> << >>, pops |-> << >>, snap |-> -1,
     next |-> -1, k |-> 0, ret |-> "none", ops |-> 0, pre |-> NoPre,
     last |-> NoLast]
NotSeen == [st |-> "none", map |-> EmptyMap]
RdIdle == [pc |-> "idle", snap |-> -1, seen |-> NotSeen]

InitRegistry ==
    /\ r_map = 0
    /\ r_heap = [o \in Objs |-> IF o = 0 THEN Live(EmptyMap) ELSE Unalloc]
    /\ r_version = 0
    /\ r_stats = [adds |-> 0, replaces |-> 0, upserts |-> 0, removes |-> 0, failures |-> 0]
    /\ wr = WrIdle
    /\ rd = [r \in RegReaders |-> RdIdle]
    /\ r_hist = << EmptyMap >>

\* The objects some shared_ptr still points to.
Referenced(map, w, readers) ==
    {map, w.snap, w.next} \cup {readers[r].snap : r \in RegReaders}

\* Variant: every object but the published one is destroyed, held or not.
ReclaimUnpublished(heap, map, w, readers) ==
    [o \in Objs |->
        IF heap[o].st = "live" /\ o \notin {map, w.snap, w.next}
        THEN Freed ELSE heap[o]]

\* shared_ptr reclamation: an object no shared_ptr points to is destroyed.
Reclaim(heap, map, w, readers) ==
    [o \in Objs |->
        IF heap[o].st = "live" /\ o \notin Referenced(map, w, readers)
        THEN Freed ELSE heap[o]]

\* The object make_shared<Map> returns: one not allocated before.
FreshObj ==
    CHOOSE o \in Objs :
        r_heap[o].st = "unalloc" /\ \A o2 \in Objs : r_heap[o2].st = "unalloc" => o <= o2

\* Variant: the writer edits the published map in place.
CowInPlace(snap, fresh) == snap

\* The object the writer builds the new map in: a fresh private copy.
CowObject(snap, fresh) == fresh

\* Variant: a version counter that counts every publish twice.
VersionFetchAddTwo(v) == v + 2
\* Variant: a version counter that is not advanced.
VersionKept(v) == v
\* version_.fetch_add(1, std::memory_order_relaxed)
VersionFetchAdd(v) == v + 1

\* The writer's call has returned: its locals (snap, next) are destroyed.
WrReturned(w, code) ==
    [w EXCEPT !.pc = "returned", !.ret = code, !.snap = -1, !.next = -1, !.k = 0]

(* mutate(mode, service_id, pops) behind addService / replaceService /    *)
(* upsertService                                                          *)
\* Basic input checks: failures_.fetch_add(1); return Invalid;
MutateCall(mode, id, pops) ==
    /\ wr.pc \in {"idle", "returned"} /\ wr.ops < MaxRegOps
    /\ LET w == [WrIdle EXCEPT !.op = mode, !.id = id, !.pops = pops,
                               !.ops = wr.ops + 1, !.pre = Observed,
                               !.last = LastCall(wr)] IN
       IF ~ValidateId(id, MaxIdLen) \/ ~ValidatePops(pops)
       THEN /\ r_stats' = [r_stats EXCEPT !.failures = @ + 1]
            /\ wr' = WrReturned(w, "Invalid")
       ELSE /\ wr' = [w EXCEPT !.pc = "m_snap"]
            /\ UNCHANGED r_stats
    /\ UNCHANGED <<r_map, r_heap, r_version, rd, r_hist>>
    /\ UNCHANGED <<seqVars, spscVars, memVars, polVars>>

\* auto snap = snapshot();  and the checks on it
MutateSnapshot ==
    /\ wr.pc = "m_snap"
    /\ LET m == r_heap[r_map].map IN
       IF Cardinality(Keys(m)) > MaxServices
       THEN /\ r_stats' = [r_stats EXCEPT !.failures = @ + 1]
            /\ wr' = WrReturned(wr, "Capacity")
       ELSE /\ wr' = [wr EXCEPT !.pc = "m_copy", !.snap = r_map]
            /\ UNCHANGED r_stats
    /\ UNCHANGED <<r_map, r_heap, r_version, rd, r_hist>>
    /\ UNCHANGED <<seqVars, spscVars, memVars, polVars>>

\* Variant: Add without the exists test.
ModeErrorAddUnchecked(mode, exists) ==
    IF mode = "Replace" /\ ~exists THEN "NotFound"
    ELSE "Ok"

\* case Add: if (exists) return Exists;  case Replace: if (!exists) return
\* NotFound;  Upsert has no such return.
ModeError(mode, exists) ==
    IF mode = "Add" /\ exists THEN "Exists"
    ELSE IF mode = "Replace" /\ ~exists THEN "NotFound"
    ELSE "Ok"

\* auto next = std::make_shared<Map>(*snap); exists = (find != end); and
\* the Exists / NotFound returns
MutateCopy ==
    /\ wr.pc = "m_copy"
    /\ LET next == CowObject(wr.snap, FreshObj)
           heap == [r_heap EXCEPT ![next] = r_heap[wr.snap]]
           exists == wr.id \in Keys(r_heap[wr.snap].map) IN
       IF ModeError(wr.op, exists) # "Ok"
       THEN LET w == WrReturned(wr, ModeError(wr.op, exists)) IN
            /\ r_stats' = [r_stats EXCEPT !.failures = @ + 1]
            /\ wr' = w
            /\ r_heap' = Reclaim(heap, r_map, w, rd)
       ELSE /\ wr' = [wr EXCEPT !.pc = "m_apply", !.next = next, !.k = 0]
            /\ r_heap' = heap
            /\ UNCHANGED r_stats
    /\ UNCHANGED <<r_map, r_version, rd, r_hist>>
    /\ UNCHANGED <<seqVars, spscVars, memVars, polVars>>

\* Add, Upsert: next->emplace(id, pops).  Replace: it->second = pops, one
\* element after the other and then the length.
MutateApply ==
    /\ wr.pc = "m_apply"
    /\ LET m == r_heap[wr.next].map IN
       IF wr.op \in {"Add", "Upsert"}
       THEN /\ r_heap' = [r_heap EXCEPT ![wr.next] = Live(Emplace(m, wr.id, wr.pops))]
            /\ wr' = [wr EXCEPT !.pc = "m_store"]
       ELSE IF wr.k < AssignSteps(m[wr.id], wr.pops)
       THEN /\ r_heap' = [r_heap EXCEPT ![wr.next] =
                            Live([m EXCEPT ![wr.id] = AssignPrefix(@, wr.pops, wr.k + 1)])]
            /\ wr' = [wr EXCEPT !.k = @ + 1]
       ELSE /\ r_heap' = [r_heap EXCEPT ![wr.next] = Live([m EXCEPT ![wr.id] = wr.pops])]
            /\ wr' = [wr EXCEPT !.pc = "m_store"]
    /\ UNCHANGED <<r_map, r_version, r_stats, rd, r_hist>>
    /\ UNCHANGED <<seqVars, spscVars, memVars, polVars>>

\* std::atomic_store_explicit(&map_, std::move(cnext), release);
MutateStore ==
    /\ wr.pc = "m_store"
    /\ r_map' = wr.next
    /\ r_hist' = Append(r_hist, r_heap[wr.next].map)
    /\ wr' = [wr EXCEPT !.pc = "m_version", !.next = -1]
    /\ r_heap' = Reclaim(r_heap, r_map', wr', rd)
    /\ UNCHANGED <<r_version, r_stats, rd>>
    /\ UNCHANGED <<seqVars, spscVars, memVars, polVars>>

\* version_.fetch_add(1, relaxed);
MutateVersion ==
    /\ wr.pc = "m_version"
    /\ r_version' = VersionFetchAdd(r_version)
    /\ wr' = [wr EXCEPT !.pc = "m_count"]
    /\ UNCHANGED <<r_map, r_heap, r_stats, rd, r_hist>>
    /\ UNCHANGED <<seqVars, spscVars, memVars, polVars>>

\* adds_ / replaces_ / upserts_ .fetch_add(1, relaxed); return Ok;
MutateCount ==
    /\ wr.pc = "m_count"
    /\ r_stats' = CASE wr.op = "Add" -> [r_stats EXCEPT !.adds = @ + 1]
                    [] wr.op = "Replace" -> [r_stats EXCEPT !.replaces = @ + 1]
                    [] OTHER -> [r_stats EXCEPT !.upserts = @ + 1]
    /\ wr' = WrReturned(wr, "Ok")
    /\ r_heap' = Reclaim(r_heap, r_map, wr', rd)
    /\ UNCHANGED <<r_map, r_version, rd, r_hist>>
    /\ UNCHANGED <<seqVars, spscVars, memVars, polVars>>

(* removeService(service_id)                                              *)
\* auto snap = snapshot(); if (!snap || snap->empty()) return false;
RemoveCall(id) ==
    /\ wr.pc \in {"idle", "returned"} /\ wr.ops < MaxRegOps
    /\ LET w == [WrIdle EXCEPT !.op = "Remove", !.id = id, !.ops = wr.ops + 1,
                               !.pre = Observed, !.last = LastCall(wr)] IN
       IF Keys(r_heap[r_map].map) = {}
       THEN wr' = WrReturned(w, "false")
       ELSE wr' = [w EXCEPT !.pc = "rm_copy", !.snap = r_map]
    /\ UNCHANGED <<r_map, r_heap, r_version, r_stats, rd, r_hist>>
    /\ UNCHANGED <<seqVars, spscVars, memVars, polVars>>

\* Variant: removeService without "if (!erased) return false".
ErasedAlways(m, id) == TRUE
\* bool erased = (it != next->end());
Erased(m, id) == id \in Keys(m)

\* auto next = std::make_shared<Map>(*snap); find; erase; if (!erased) return false;
RemoveCopy ==
    /\ wr.pc = "rm_copy"
    /\ LET next == CowObject(wr.snap, FreshObj)
           erased == Erased(r_heap[wr.snap].map, wr.id)
           heap == [r_heap EXCEPT ![next] =
                       IF erased THEN Live(Erase(r_heap[wr.snap].map, wr.id))
                       ELSE r_heap[wr.snap]] IN
       IF ~erased
       THEN LET w == WrReturned(wr, "false") IN
            /\ wr' = w
            /\ r_heap' = Reclaim(heap, r_map, w, rd)
       ELSE /\ wr' = [wr EXCEPT !.pc = "rm_store", !.next = next]
            /\ r_heap' = heap
    /\ UNCHANGED <<r_map, r_version, r_stats, rd, r_hist>>
    /\ UNCHANGED <<seqVars, spscVars, memVars, polVars>>

\* std::atomic_store_explicit(&map_, std::move(cnext), release);
RemoveStore ==
    /\ wr.pc = "rm_store"
    /\ r_map' = wr.next
    /\ r_hist' = Append(r_hist, r_heap[wr.next].map)
    /\ wr' = [wr EXCEPT !.pc = "rm_version", !.next = -1]
    /\ r_heap' = Reclaim(r_heap, r_map', wr', rd)
    /\ UNCHANGED <<r_version, r_stats, rd>>
    /\ UNCHANGED <<seqVars, spscVars, memVars, polVars>>

RemoveVersion ==
    /\ wr.pc = "rm_version"
    /\ r_version' = VersionFetchAdd(r_version)
    /\ wr' = [wr EXCEPT !.pc = "rm_count"]
    /\ UNCHANGED <<r_map, r_heap, r_stats, rd, r_hist>>
    /\ UNCHANGED <<seqVars, spscVars, memVars, polVars>>

\* removes_.fetch_add(1, relaxed); return true;
RemoveCount ==
    /\ wr.pc = "rm_count"
    /\ r_stats' = [r_stats EXCEPT !.removes = @ + 1]
    /\ wr' = WrReturned(wr, "true")
    /\ r_heap' = Reclaim(r_heap, r_map, wr', rd)
    /\ UNCHANGED <<r_map, r_version, rd, r_hist>>
    /\ UNCHANGED <<seqVars, spscVars, memVars, polVars>>

(* clear()                                                                *)
\* Variant: clear starts from a copy of the current snapshot.
ClearedFromSnapshot == r_heap[r_map].map
\* std::make_shared<Map>(): the map clear publishes.
Cleared == EmptyMap

\* auto next = std::make_shared<Map>();
RegClearCall ==
    /\ wr.pc \in {"idle", "returned"} /\ wr.ops < MaxRegOps
    /\ LET next == FreshObj IN
       /\ r_heap' = [r_heap EXCEPT ![next] = Live(Cleared)]
       /\ wr' = [WrIdle EXCEPT !.pc = "cl_store", !.op = "Clear", !.next = next,
                               !.ops = wr.ops + 1, !.pre = Observed,
                               !.last = LastCall(wr)]
    /\ UNCHANGED <<r_map, r_version, r_stats, rd, r_hist>>
    /\ UNCHANGED <<seqVars, spscVars, memVars, polVars>>

RegClearStore ==
    /\ wr.pc = "cl_store"
    /\ r_map' = wr.next
    /\ r_hist' = Append(r_hist, r_heap[wr.next].map)
    /\ wr' = [wr EXCEPT !.pc = "cl_version", !.next = -1]
    /\ r_heap' = Reclaim(r_heap, r_map', wr', rd)
    /\ UNCHANGED <<r_version, r_stats, rd>>
    /\ UNCHANGED <<seqVars, spscVars, memVars, polVars>>

RegClearVersion ==
    /\ wr.pc = "cl_version"
    /\ r_version' = VersionFetchAdd(r_version)
    /\ wr' = WrReturned(wr, "void")
    /\ UNCHANGED <<r_map, r_heap, r_stats, rd, r_hist>>
    /\ UNCHANGED <<seqVars, spscVars, memVars, polVars>>

(* A reader: auto s = reg.snapshot(); ... use *s ...; s goes out of scope  *)
\* snapshot(): std::atomic_load_explicit(&map_, acquire)
ReaderSnapshot(r) ==
    /\ rd[r].pc = "idle"
    /\ rd' = [rd EXCEPT ![r] = [pc |-> "held", snap |-> r_map, seen |-> NotSeen]]
    /\ UNCHANGED <<r_map, r_heap, r_version, r_stats, wr, r_hist>>
    /\ UNCHANGED <<seqVars, spscVars, memVars, polVars>>

\* The reader looks at the map through its shared_ptr.
ReaderObserve(r) ==
    /\ rd[r].pc \in {"held", "seen"}
    /\ rd' = [rd EXCEPT ![r] = [@ EXCEPT !.pc = "seen", !.seen = r_heap[rd[r].snap]]]
    /\ UNCHANGED <<r_map, r_heap, r_version, r_stats, wr, r_hist>>
    /\ UNCHANGED <<seqVars, spscVars, memVars, polVars>>

\* The reader's shared_ptr is destroyed.
ReaderDrop(r) ==
    /\ rd[r].pc \in {"held", "seen"}
    /\ rd' = [rd EXCEPT ![r] = RdIdle]
    /\ r_heap' = Reclaim(r_heap, r_map, wr, rd')
    /\ UNCHANGED <<r_map, r_version, r_stats, wr, r_hist>>
    /\ UNCHANGED <<seqVars, spscVars, memVars, polVars>>

\* The steps inside the writer's calls and the readers' steps.
RegistrySteps ==
    \/ MutateSnapshot
    \/ MutateCopy
    \/ MutateApply
    \/ MutateStore
    \/ MutateVersion
    \/ MutateCount
    \/ RemoveCopy
    \/ RemoveStore
    \/ RemoveVersion
    \/ RemoveCount
    \/ RegClearStore
    \/ RegClearVersion
    \/ \E r \in RegReaders : ReaderSnapshot(r)
    \/ \E r \in RegReaders : ReaderObserve(r)
    \/ \E r \in RegReaders : ReaderDrop(r)

NextRegistry ==
    \/ \E mode \in RegModes, id \in RegIds, pops \in RegLists : MutateCall(mode, id, pops)
    \/ \E id \in RegIds : RemoveCall(id)
    \/ RegClearCall
    \/ RegistrySteps

NextRegistryEdge ==
    \/ \E mode \in RegModes, id \in EdgeIds, pops \in EdgeLists : MutateCall(mode, id, pops)
    \/ \E id \in EdgeIds : RemoveCall(id)
    \/ RegClearCall
    \/ RegistrySteps

(***************************************************************************)
(* Path-selection policies (path_selection.hpp, path_selection.cpp).       *)
(* One policy object, the MetricsSlots its candidates point to, one CP     *)
(* thread calling update_metrics on the slots and the DP threads calling   *)
(* choose, one call each.  Every access to a slot's seq or payload and every atomic       *)
(* operation on the policy object is a step of its own; the computation    *)
(* on locals that follows an access belongs to that access's step.         *)
(***************************************************************************)
\* The slots: candidate number j of a list points to slot number j.
Slots == 0..(MaxCands - 1)

\* CandidateRef{id, slot}; the ids differ from the indices and from 0.
CandId(j) == 11 + j

\* std::span<const CandidateRef> of n elements, indexed from 0 as in the code.
Cands(n) == [j \in 0..(n - 1) |-> [id |-> CandId(j), slot |-> j]]

CandLists == {Cands(n) : n \in 0..MaxCands}

\* cands.size()
Size(cands) == Cardinality(DOMAIN cands)

\* PacketContext{flow_hash, dscp}
FlowHashes == {0, 5}
Dscps == {0, 46}
Packets == [flow_hash : FlowHashes, dscp : {46}]
QuietPackets == [flow_hash : {5}, dscp : Dscps]

\* The values the CP passes to update_metrics on the candidates' slots.
SlotMetrics(h, rtt, q) ==
    [rtt_us |-> rtt, one_way_delay_us |-> 0, loss_ppm |-> 0,
     avail_kbps |-> 0, qos_class |-> q, healthy |-> h]

SlotArgs == {SlotMetrics(TRUE, 3, 1), SlotMetrics(FALSE, 1, 0)}

\* LatencyAwareConfig{tie_margin_us, explore_ppm, prefer_qos_class}
TieMargins == {0, 2}
ExplorePpms == {0, 1}

\* std::atomic<std::uint32_t> salt_{0xA5A55A5Au}, in the model's word width.
\* 0xA5A55A5A = 0xA5A5 * 2^16 + 0x5A5A.
SaltInit == ((42405 % TwoPow32) * (65536 % TwoPow32) + 23130) % TwoPow32

\* salt_.fetch_add(0x9E37u, relaxed)
SaltNext(s) == (s + 40503) % TwoPow32

RoundRobinPolicy(idx) ==
    [kind |-> "rr", idx |-> idx, skip_unhealthy |-> FALSE, tie_margin_us |-> 0,
     explore_ppm |-> 0, prefer_qos_class |-> FALSE, salt |-> 0]

FlowHashPolicy(skip) ==
    [kind |-> "fh", idx |-> 0, skip_unhealthy |-> skip, tie_margin_us |-> 0,
     explore_ppm |-> 0, prefer_qos_class |-> FALSE, salt |-> 0]

LatencyAwarePolicy(tie, ppm, prefer) ==
    [kind |-> "la", idx |-> 0, skip_unhealthy |-> FALSE, tie_margin_us |-> tie,
     explore_ppm |-> ppm, prefer_qos_class |-> prefer, salt |-> SaltInit]

\* The policy objects a run starts with: a round-robin counter that is new
\* or about to wrap, both flow-hash modes, the latency-aware configurations.
LatencyAwarePolicies ==
    {LatencyAwarePolicy(t, e, p) : t \in TieMargins, e \in ExplorePpms, p \in BOOLEAN}

PolicyObjects ==
    {RoundRobinPolicy(x) : x \in {0, U32Max}}
    \cup {FlowHashPolicy(s) : s \in BOOLEAN}
    \cup {LatencyAwarePolicy(2, e, TRUE) : e \in ExplorePpms}

\* qos_match(path_class, dscp): return path_class != 0;
QosMatch(path_class, dscp) == path_class # 0

\* const bool close = (m.rtt_us <= bestm.rtt_us + cfg_.tie_margin_us), the sum
\* in std::uint32_t.
Close(rtt, best_rtt, tie) == rtt <= (best_rtt + tie) % TwoPow32

\* Variant: the counter is read after its increment.
RrStartAfter(idx, n) == (idx + 1) % n

\* idx_.fetch_add(1, relaxed) % n: the value before the increment, modulo n.
RrStart(idx, n) == idx % n

\* Variant: the increment is lost.
RrFetchAddLost(idx) == idx

\* The value idx_.fetch_add(1, relaxed) leaves in idx_.
RrFetchAdd(idx) == (idx + 1) % TwoPow32

\* const auto base = pkt.flow_hash % n;
FhBase(flow_hash, n) == flow_hash % n

\* Variant: the scan is never skipped.
FhDirectNever(skip) == FALSE

\* if (!skip_unhealthy_) return cands[base].id;
FhDirect(skip) == ~skip

\* const auto k = (start + i) % n;
ScanIndex(start, i, n) == (start + i) % n

\* if (n == 0) return 0;  if (cands.empty()) return 0;
EmptyResult == 0

\* Variant: the degraded result is the index instead of the candidate's id.
CandResultIndex(cands, k) == k

\* return cands[k].id;
CandResult(cands, k) == cands[k].id

SCpIdle == [pc |-> "idle", slot |-> 0, start |-> 0, arg |-> DefaultMetrics, ops |-> 0]

ChIdle ==
    [pc |-> "idle", cands |-> Cands(0), n |-> 0, flow_hash |-> 0, dscp |-> 0,
     phase |-> "none", start |-> 0, i |-> 0, k |-> 0, att |-> 0, s1 |-> 0,
     snap |-> DefaultMetrics, m |-> DefaultMetrics,
     best |-> 0, have_best |-> FALSE, bestm |-> DefaultMetrics,
     idx |-> 0, minm |-> DefaultMetrics, init |-> FALSE,
     ret |-> 0,
     \* ghosts: the counter value the call fetched, the salt at the call, the
     \* completed load_metrics calls <<k, ok, m>> in order, and which return
     \* statement ended the call
     idx0 |-> 0, salt0 |-> 0, reads |-> << >>, via |-> "none"]

DpThreads == {"dp1"}

InitPolUnused ==
    /\ s_seq = [s \in Slots |-> 0]
    /\ s_metrics = [s \in Slots |-> DefaultMetrics]
    /\ s_cp = SCpIdle
    /\ pol = RoundRobinPolicy(0)
    /\ ch = [t \in DpThreads |-> ChIdle]

\* Slots as constructed (MetricsSlot{}: seq 0, default PathMetrics) or all
\* after one update_metrics call, any of the policy objects, nobody inside a
\* call.
SlotUpdated == SlotMetrics(TRUE, 2, 0)
InitPolicy ==
    /\ \E m \in {DefaultMetrics, SlotUpdated} :
          /\ s_metrics = [s \in Slots |-> m]
          /\ s_seq = [s \in Slots |-> IF m = DefaultMetrics THEN 0 ELSE PublishSeq(0)]
    /\ s_cp = SCpIdle
    /\ pol \in PolicyObjects
    /\ ch = [t \in DpThreads |-> ChIdle]

(***************************************************************************)
(* cp::update_metrics(MetricsSlot& s, const PathMetrics& m) on a slot.     *)
(***************************************************************************)
\* start = s.seq.load(relaxed); s.seq.store(start | 1u, relaxed): one step,
\* the CP thread being the only one that stores to seq.
SlotUpdateEnter(s, m) ==
    /\ s_cp.pc = "idle" /\ s_cp.ops < MaxSlotUpdates
    /\ s_seq' = [s_seq EXCEPT ![s] = Or1(s_seq[s])]
    /\ s_cp' = [pc |-> "write", slot |-> s, start |-> s_seq[s], arg |-> m, ops |-> s_cp.ops + 1]
    /\ UNCHANGED <<s_metrics, pol, ch>>
    /\ UNCHANGED <<seqVars, spscVars, regVars, memVars>>

SlotUpdateWrite ==
    /\ s_cp.pc = "write"
    /\ s_metrics' = [s_metrics EXCEPT ![s_cp.slot] = s_cp.arg]
    /\ s_cp' = [s_cp EXCEPT !.pc = "even"]
    /\ UNCHANGED <<s_seq, pol, ch>>
    /\ UNCHANGED <<seqVars, spscVars, regVars, memVars>>

SlotUpdatePublish ==
    /\ s_cp.pc = "even"
    /\ s_seq' = [s_seq EXCEPT ![s_cp.slot] = PublishSeq(s_cp.start)]
    /\ s_cp' = [SCpIdle EXCEPT !.ops = s_cp.ops]
    /\ UNCHANGED <<s_metrics, pol, ch>>
    /\ UNCHANGED <<seqVars, spscVars, regVars, memVars>>

(***************************************************************************)
(* choose(cands, pkt) of the three policies.  A call record holds the      *)
(* call's locals; phase names the loop the call is in: "scan" (the loops   *)
(* of RoundRobinPolicy and FlowHashPolicy), "healthy", "fallback" and      *)
(* "explore" (the three loops of LatencyAwarePolicy).  The payload copy of *)
(* load_metrics and the payload write of update_metrics are one step each: *)
(* a copy that overlaps a write is one the recheck rejects.  XorShift32 is *)
(* not computed: its two results, whether the call explores (go) and where *)
(* the exploring scan starts (st), are free choices.                       *)
(***************************************************************************)
\* Variant: the fallback always returns the first candidate.
FallbackIndexFirst(init, idx) == 0

\* return cands[init ? idx : 0].id;
FallbackIndex(init, idx) == IF init THEN idx ELSE 0

\* A return statement of choose; via names the statement.
Return(c, id, via) == [c EXCEPT !.pc = "returned", !.ret = id, !.via = via]

\* The index the loop body of iteration c.i works on.
IterIndex(c) ==
    IF c.phase \in {"scan", "explore"} THEN ScanIndex(c.start, c.i, c.n) ELSE c.i

\* The loop condition with c.i set: enter the body (up to its load_metrics
\* call), or leave the loop and run the code that follows it.
RECURSIVE EnterIter(_, _, _, _)
EnterIter(c, p, go, st) ==
    IF c.i < c.n
    THEN IF c.phase = "explore" /\ IterIndex(c) = c.best
         THEN EnterIter([c EXCEPT !.i = @ + 1], p, go, st)
         ELSE [c EXCEPT !.pc = "s1", !.k = IterIndex(c), !.att = 0]
    ELSE CASE c.phase = "scan" ->
                Return(c, CandResult(c.cands, c.start), "degraded")
           [] c.phase = "healthy" ->
                IF ~c.have_best
                THEN EnterIter([c EXCEPT !.phase = "fallback", !.i = 0], p, go, st)
                ELSE IF p.explore_ppm # 0 /\ go
                     THEN EnterIter([c EXCEPT !.phase = "explore", !.start = st, !.i = 0],
                                    p, go, st)
                     ELSE Return(c, CandResult(c.cands, c.best), "best")
           [] c.phase = "fallback" ->
                Return(c, CandResult(c.cands, FallbackIndex(c.init, c.idx)), "fallback")
           [] c.phase = "explore" ->
                Return(c, CandResult(c.cands, c.best), "best")

\* load_metrics has returned ok for cands[c.k] (out = snap when ok): the rest
\* of the loop body, then the next iteration.
AfterLoad(c0, ok, p, go, st) ==
    LET c == [c0 EXCEPT !.m = IF ok THEN c0.snap ELSE @,
                        !.s1 = 0, !.snap = DefaultMetrics,
                        !.reads = Append(@, [k |-> c0.k, ok |-> ok, phase |-> c0.phase,
                                             m |-> IF ok THEN c0.snap ELSE DefaultMetrics])]
        m == c.m
        Continue(d) == EnterIter([d EXCEPT !.i = @ + 1], p, go, st)
    IN  CASE c.phase = "scan" ->
                IF ok /\ m.healthy THEN Return(c, CandResult(c.cands, c.k), "scan")
                ELSE Continue(c)
          [] c.phase = "healthy" ->
                IF ~ok \/ ~m.healthy THEN Continue(c)
                ELSE IF ~c.have_best \/ m.rtt_us < c.bestm.rtt_us
                THEN Continue([c EXCEPT !.best = c.i, !.bestm = m, !.have_best = TRUE])
                ELSE IF /\ p.prefer_qos_class
                        /\ Close(m.rtt_us, c.bestm.rtt_us, p.tie_margin_us)
                        /\ QosMatch(m.qos_class, c.dscp)
                        /\ ~QosMatch(c.bestm.qos_class, c.dscp)
                THEN Continue([c EXCEPT !.best = c.i, !.bestm = m])
                ELSE Continue(c)
          [] c.phase = "fallback" ->
                IF ~ok THEN Continue(c)
                ELSE IF ~c.init \/ m.rtt_us < c.minm.rtt_us
                THEN Continue([c EXCEPT !.idx = c.i, !.minm = m, !.init = TRUE])
                ELSE Continue(c)
          [] c.phase = "explore" ->
                IF ok /\ m.healthy THEN Return(c, CandResult(c.cands, c.k), "explore")
                ELSE Continue(c)

\* The end of one attempt of load_metrics that did not accept: ++i, and
\* return false when the loop is over.
Retry(c, p, go, st) ==
    IF LoopContinues(NextAttempt(c.att))
    THEN [c EXCEPT !.pc = "s1", !.att = NextAttempt(@), !.s1 = 0, !.snap = DefaultMetrics]
    ELSE AfterLoad(c, FALSE, p, go, st)

\* Variant: every return perturbs the salt.
PolAfterAnyReturn(p, c) ==
    IF c.pc = "returned" THEN [p EXCEPT !.salt = SaltNext(@)] ELSE p

\* salt_.fetch_add(0x9E37u, relaxed) before the exploring return.
PolAfter(p, c) ==
    IF c.pc = "returned" /\ c.via = "explore" THEN [p EXCEPT !.salt = SaltNext(@)] ELSE p

\* Entry of choose up to the first load_metrics call or the return.
ChooseCall(t, cands, pkt) ==
    /\ ch[t].pc = "idle"
    /\ LET n == Size(cands)
           c == [ChIdle EXCEPT !.cands = cands, !.n = n, !.flow_hash = pkt.flow_hash,
                               !.dscp = pkt.dscp,
                               !.idx0 = pol.idx, !.salt0 = pol.salt]
           base == FhBase(pkt.flow_hash, n)
           r == CASE n = 0 -> Return(c, EmptyResult, "empty")
                  [] n # 0 /\ pol.kind = "rr" ->
                        EnterIter([c EXCEPT !.phase = "scan", !.start = RrStart(pol.idx, n)],
                                  pol, FALSE, 0)
                  [] n # 0 /\ pol.kind = "fh" ->
                        IF FhDirect(pol.skip_unhealthy)
                        THEN Return([c EXCEPT !.start = base], CandResult(cands, base), "direct")
                        ELSE EnterIter([c EXCEPT !.phase = "scan", !.start = base],
                                       pol, FALSE, 0)
                  [] n # 0 /\ pol.kind = "la" ->
                        EnterIter([c EXCEPT !.phase = "healthy"], pol, FALSE, 0)
       IN  /\ ch' = [ch EXCEPT ![t] = r]
           /\ pol' = IF n # 0 /\ pol.kind = "rr" THEN [pol EXCEPT !.idx = RrFetchAdd(@)]
                     ELSE pol
    /\ UNCHANGED <<s_seq, s_metrics, s_cp>>
    /\ UNCHANGED <<seqVars, spscVars, regVars, memVars>>

\* load_metrics: const auto s1 = s.seq.load(acquire); if (s1 & 1u) continue;
ChLoadS1(t) ==
    /\ ch[t].pc = "s1"
    /\ \E go \in BOOLEAN, st \in 0..(ch[t].n - 1) :
        LET c == ch[t]
            s1 == s_seq[c.cands[c.k].slot]
            r == IF WriterActive(s1) THEN Retry(c, pol, go, st)
                 ELSE [c EXCEPT !.pc = "copy", !.s1 = s1]
        IN  /\ ch' = [ch EXCEPT ![t] = r]
            /\ pol' = PolAfter(pol, r)
    /\ UNCHANGED <<s_seq, s_metrics, s_cp>>
    /\ UNCHANGED <<seqVars, spscVars, regVars, memVars>>

\* load_metrics: const PathMetrics snap = s.metrics;
ChLoadCopy(t) ==
    /\ ch[t].pc = "copy"
    /\ ch' = [ch EXCEPT ![t] = [@ EXCEPT !.pc = "s2",
                                         !.snap = s_metrics[ch[t].cands[ch[t].k].slot]]]
    /\ UNCHANGED <<s_seq, s_metrics, s_cp, pol>>
    /\ UNCHANGED <<seqVars, spscVars, regVars, memVars>>

\* load_metrics: const auto s2 = s.seq.load(acquire); the recheck; then the
\* caller's use of the result.
ChLoadS2(t) ==
    /\ ch[t].pc = "s2"
    /\ \E go \in BOOLEAN, st \in 0..(ch[t].n - 1) :
        LET c == ch[t]
            s2 == s_seq[c.cands[c.k].slot]
            r == IF MetricsAccept(c.s1, s2) THEN AfterLoad(c, TRUE, pol, go, st)
                 ELSE Retry(c, pol, go, st)
        IN  /\ ch' = [ch EXCEPT ![t] = r]
            /\ pol' = PolAfter(pol, r)
    /\ UNCHANGED <<s_seq, s_metrics, s_cp>>
    /\ UNCHANGED <<seqVars, spscVars, regVars, memVars>>

CpSlotStep ==
    \/ \E s \in Slots, m \in SlotArgs : SlotUpdateEnter(s, m)
    \/ SlotUpdateWrite
    \/ SlotUpdatePublish

DpChooseStep ==
    \/ \E t \in DpThreads, cands \in CandLists, pkt \in Packets : ChooseCall(t, cands, pkt)
    \/ \E t \in DpThreads : ChLoadS1(t)
    \/ \E t \in DpThreads : ChLoadCopy(t)
    \/ \E t \in DpThreads : ChLoadS2(t)

NextPolicy == CpSlotStep \/ DpChooseStep

\* The DP thread alone, calling choose on a full list.
NextPolicyQuiet ==
    \/ \E t \in DpThreads, pkt \in QuietPackets : ChooseCall(t, Cands(MaxCands), pkt)
    \/ \E t \in DpThreads : ChLoadS1(t)
    \/ \E t \in DpThreads : ChLoadCopy(t)
    \/ \E t \in DpThreads : ChLoadS2(t)

(***************************************************************************)
(* Specifications.                                                         *)
(***************************************************************************)
\* A ring nobody uses: the specifications of the other components fix it.
InitSpscUnused ==
    /\ q_cap = 1
    /\ q_elem = "trivial"
    /\ q_head = 0
    /\ q_tail = 0
    /\ q_buf = [j \in 0..0 |-> Uninit]
    /\ prod = ProdIdle
    /\ cons = ConsIdle
    /\ pushed = <<>>
    /\ popped = <<>>
    /\ crashed = FALSE

Init == InitSeqlock /\ InitSpsc /\ InitRegistry /\ InitMemUnused /\ InitPolUnused

InitNoRing == InitSeqlock /\ InitSpscUnused /\ InitRegistry /\ InitMemUnused /\ InitPolUnused

\* The seqlock cells with the CP thread and the DP threads.
SpecSeqlock == InitNoRing /\ [][NextSeqlock]_vars

\* The ring with its producer and its consumer.
SpecSpsc == Init /\ [][NextSpsc]_vars

\* The registry with its writer and its readers.
SpecRegistry == InitNoRing /\ [][NextRegistry]_vars

\* The registry with a writer whose inputs are inside the limits.
SpecRegistryEdge == InitNoRing /\ [][NextRegistryEdge]_vars

\* A registry that MaxServices successful addService calls have filled:
\* services "f000", "f001", ... with one PoP each.
FillerId(j) ==
    <<"f", Digits[(j \div 100) + 1], Digits[((j \div 10) % 10) + 1], Digits[(j % 10) + 1]>>
FilledMap(n) ==
    [k \in {FillerId(j) : j \in 0..(n - 1)} |-> ListB]
InitRegistryFilled ==
    LET n == MaxServices IN
        /\ r_map = 0
        /\ r_heap = [o \in Objs |-> IF o = 0 THEN Live(FilledMap(n)) ELSE Unalloc]
        /\ r_version = n
        /\ r_stats = [adds |-> n, replaces |-> 0, upserts |-> 0, removes |-> 0, failures |-> 0]
        /\ wr = WrIdle
        /\ rd = [r \in RegReaders |-> RdIdle]
        /\ r_hist = << FilledMap(n) >>
\* A registry in which addService("svc", listB) has succeeded.
SeededMap == [k \in { <<"s", "v", "c">> } |-> ListB]
InitRegistrySeeded ==
    /\ r_map = 0
    /\ r_heap = [o \in Objs |-> IF o = 0 THEN Live(SeededMap) ELSE Unalloc]
    /\ r_version = 1
    /\ r_stats = [adds |-> 1, replaces |-> 0, upserts |-> 0, removes |-> 0, failures |-> 0]
    /\ wr = WrIdle
    /\ rd = [r \in RegReaders |-> RdIdle]
    /\ r_hist = << EmptyMap, SeededMap >>
InitSeeded == InitSeqlock /\ InitSpscUnused /\ InitRegistrySeeded /\ InitMemUnused /\ InitPolUnused
SpecRegistrySeeded == InitSeeded /\ [][NextRegistry]_vars

InitFilled == InitSeqlock /\ InitSpscUnused /\ InitRegistryFilled /\ InitMemUnused /\ InitPolUnused
SpecRegistryFilled == InitFilled /\ [][NextRegistry]_vars

\* The factory and the queue it returns.
InitShell == InitSeqlock /\ InitSpscShell /\ InitRegistry /\ InitMemUnused /\ InitPolUnused

SpecFactory == InitShell /\ [][NextFactory]_vars

\* The packet pool with its acquiring and its releasing thread.
SpecPool == InitShell /\ [][NextPool]_vars

\* The policies with the CP thread updating the slots under the DP thread.
InitPol == InitSeqlock /\ InitSpscUnused /\ InitRegistry /\ InitMemUnused /\ InitPolicy
SpecPolicy == InitPol /\ [][NextPolicy]_vars

\* Slots that earlier update_metrics calls have filled and that nobody
\* writes any more, and a latency-aware policy.
QuietMetrics ==
    {SlotMetrics(TRUE, 1, 0), SlotMetrics(TRUE, 1, 1), SlotMetrics(TRUE, 2, 0),
     SlotMetrics(TRUE, 3, 1), SlotMetrics(FALSE, 0, 0)}
InitPolicyQuiet ==
    /\ s_seq = [s \in Slots |-> 2]
    /\ s_metrics \in [Slots -> QuietMetrics]
    /\ s_cp = SCpIdle
    /\ pol \in LatencyAwarePolicies
    /\ ch = [t \in DpThreads |-> ChIdle]
InitPolQuiet == InitSeqlock /\ InitSpscUnused /\ InitRegistry /\ InitMemUnused /\ InitPolicyQuiet
SpecPolicyQuiet == InitPolQuiet /\ [][NextPolicyQuiet]_vars

\* Several DP threads calling choose on one RoundRobinPolicy whose counter is
\* at 0 or two calls before its wrap; the slots are healthy and nobody
\* writes them.
RrThreads == {"dp1", "dp2", "dp3"}
RrCounters == {0, U32Max - 1}
RrPacket == [flow_hash |-> 5, dscp |-> 46]
InitRoundRobin ==
    /\ s_seq = [s \in Slots |-> PublishSeq(0)]
    /\ s_metrics = [s \in Slots |-> SlotUpdated]
    /\ s_cp = SCpIdle
    /\ pol \in {RoundRobinPolicy(i) : i \in RrCounters}
    /\ ch = [t \in RrThreads |-> ChIdle]
NextRoundRobin ==
    \/ \E t \in RrThreads, cands \in CandLists : ChooseCall(t, cands, RrPacket)
    \/ \E t \in RrThreads : ChLoadS1(t)
    \/ \E t \in RrThreads : ChLoadCopy(t)
    \/ \E t \in RrThreads : ChLoadS2(t)
InitRr == InitSeqlock /\ InitSpscUnused /\ InitRegistry /\ InitMemUnused /\ InitRoundRobin
SpecRoundRobin == InitRr /\ [][NextRoundRobin]_vars

\* Healthy slots whose rtt_us is low, or at or next to the PathMetrics
\* default 2^w - 1, and a latency-aware policy with the QoS tie-break on.
TieMetrics ==
    {SlotMetrics(TRUE, r, q) : r \in {1, U32Max - 1, U32Max}, q \in {0, 1}}
InitTieBreak ==
    /\ s_seq = [s \in Slots |-> PublishSeq(0)]
    /\ s_metrics \in [Slots -> TieMetrics]
    /\ s_cp = SCpIdle
    /\ pol \in {LatencyAwarePolicy(t, 0, TRUE) : t \in TieMargins}
    /\ ch = [t \in DpThreads |-> ChIdle]
InitTie == InitSeqlock /\ InitSpscUnused /\ InitRegistry /\ InitMemUnused /\ InitTieBreak
SpecTieBreak == InitTie /\ [][NextPolicyQuiet]_vars

\* The same, both threads scheduled fairly.
SpecSpscLive == SpecSpsc /\ WF_vars(ProducerStep) /\ WF_vars(ConsumerStep)

(***************************************************************************)
(* Properties of the seqlocks (checked under SpecSeqlock).                 *)
(***************************************************************************)
SelectDone(r) == dp[r].op = "select" /\ dp[r].pc = "done"

PolicyResults == {ChooseOf(p) : p \in Policies}

\* C1: whenever load_metrics returns true, the PathMetrics it hands back is
\* exactly one value that some update_metrics call was given (or the slot's
\* initial value): never a mix of fields from two different writes.
C1_NoTornMetrics ==
    \A r \in Readers :
        (dp[r].op = "load" /\ dp[r].pc = "done" /\ dp[r].ok) => dp[r].out \in m_hist

\* A read that had to retry because it ran into an update, and then returned
\* the value of a later update than the first.
C1_Witness ==
    \E r \in Readers :
        /\ dp[r].op = "load" /\ dp[r].pc = "done" /\ dp[r].ok
        /\ dp[r].tries >= 2
        /\ dp[r].out \in MetricsArgs
        /\ Cardinality(m_hist) = 3

\* C2: whenever snapshot_binding returns true, the (fn, state) pair it hands
\* back was stored together by one publish_policy call: never the thunk of
\* one policy with the state of another, and never a null with a non-null.
C2_CoherentPair ==
    \A r \in Readers :
        (dp[r].op = "select" /\ dp[r].ok) =>
            <<dp[r].out_fn, dp[r].out_state>> \in b_hist

\* A snapshot accepted after a retry, while two policies have been published.
C2_Witness ==
    \E r \in Readers :
        /\ dp[r].op = "select" /\ dp[r].ok /\ dp[r].pc = "sp_call"
        /\ dp[r].tries >= 2
        /\ Cardinality(b_hist) = 2

\* C5 as stated: a select_path call during which the binding is never unbound
\* and never being cleared returns the result of a published policy, never 0.
C5_NeverZeroWhileBound ==
    \A r \in Readers :
        (SelectDone(r) /\ dp[r].view # Null /\ ~dp[r].clr) => dp[r].ret \in PolicyResults

\* C5: a select_path call during which the binding is never unbound and never
\* being cleared returns the result of a published policy, or returns 0 after
\* all four read attempts failed while a publish was in progress during the
\* call; without an overlapping publish it never returns 0.
C5_HotSwap ==
    \A r \in Readers :
        (SelectDone(r) /\ dp[r].view # Null /\ ~dp[r].clr) =>
            \/ /\ dp[r].ok
               /\ dp[r].ret \in {ChooseOf(pr[2]) : pr \in b_hist}
            \/ /\ ~dp[r].ok /\ dp[r].ret = 0 /\ ~dp[r].invoked
               /\ dp[r].tries = 4 /\ dp[r].ovl

\* A call that overlapped publish_policy(B) over a bound policy A, retried,
\* and returned B's result.
C5_Witness ==
    \E r \in Readers :
        /\ SelectDone(r) /\ dp[r].view # Null /\ ~dp[r].clr /\ dp[r].ovl
        /\ dp[r].tries >= 2
        /\ dp[r].ret = ChooseOf("B")
        /\ Cardinality(b_hist) = 2

\* C6: a select_path call that overlaps no publish or clear, made while a
\* policy is bound, returns the result of the most recently published policy
\* and its first read attempt succeeds.
C6_QuiescentSelect ==
    \A r \in Readers :
        (SelectDone(r) /\ dp[r].view # Null /\ ~dp[r].ovl /\ dp[r].bound0 # Null) =>
            /\ dp[r].ok
            /\ dp[r].ret = ChooseOf(dp[r].bound0)
            /\ dp[r].tries = 1

\* A call made after publish(A) and then publish(B) had both finished.
C6_Witness ==
    \E r \in Readers :
        /\ SelectDone(r) /\ ~dp[r].ovl /\ dp[r].bound0 = "B"
        /\ dp[r].ret = ChooseOf("B")
        /\ Cardinality(b_hist) = 2

\* C7: load_metrics and snapshot_binding make at most 4 attempts per call, an
\* attempt that sees an odd seq counts against the 4, and a call none of whose
\* attempts is accepted returns false (select_path then returns 0).
C7_BoundedRetry ==
    \A r \in Readers :
        /\ dp[r].tries <= 4
        /\ dp[r].i <= 4
        /\ dp[r].pc \in {"lm_s1", "lm_copy", "lm_s2", "sb_s1", "sb_fn", "sb_st", "sb_s2"}
              => dp[r].tries <= dp[r].i + 1 /\ dp[r].i < 4
        /\ dp[r].i = 4 => dp[r].pc = "done" /\ ~dp[r].ok /\ dp[r].tries = 4

\* A load_metrics call that used up its four attempts while the writer was
\* still inside update_metrics.
C7_Witness ==
    \E r \in Readers :
        /\ dp[r].op = "load" /\ dp[r].pc = "done" /\ ~dp[r].ok
        /\ dp[r].tries = 4
        /\ cp.op = "update"

\* C8: select_path returns 0 and invokes no policy function whenever
\* snapshot_binding returns false; with the binding Unbound for the whole call
\* snapshot_binding returns false; a view with a null binding returns 0.
C8_FailSoft ==
    \A r \in Readers :
        SelectDone(r) =>
            /\ ~dp[r].ok => dp[r].ret = 0 /\ ~dp[r].invoked
            /\ dp[r].view = Null => dp[r].ret = 0 /\ ~dp[r].invoked
            /\ (dp[r].view # Null /\ dp[r].unb0 /\ ~dp[r].ovl) => ~dp[r].ok /\ dp[r].ret = 0

\* A call made after a policy was published and then cleared.
C8_Witness ==
    \E r \in Readers :
        /\ SelectDone(r) /\ dp[r].view # Null /\ dp[r].unb0 /\ ~dp[r].ovl
        /\ dp[r].ret = 0
        /\ b_hist # {}

(***************************************************************************)
(* Properties of the SPSC ring (checked under SpecSpsc / SpecSpscLive).    *)
(***************************************************************************)
Stored == Len(pushed) - Len(popped)

\* C3: for every power-of-two capacity and every interleaving of one producer
\* and one consumer, the values delivered by successful pops are a prefix of
\* the values accepted by successful pushes, in order; the accepted values
\* not yet delivered are exactly those the indices say are in the ring, so
\* none is lost and none delivered twice.
C3_FifoPrefix ==
    /\ Len(popped) <= Len(pushed)
    /\ \A j \in 1..Len(popped) : popped[j] = pushed[j]
    /\ \A j \in 1..Len(pushed) : pushed[j] = ValueOf(j - 1)
    /\ ApproxSize = Stored
    /\ (prod.i = NumValues /\ cons.consumed = NumValues) =>
           popped = [j \in 1..NumValues |-> ValueOf(j - 1)]

\* More values than the capacity went through a ring of four slots: the
\* indices wrapped and every value arrived in order.
C3_Witness ==
    /\ q_cap = 4
    /\ Len(popped) = NumValues
    /\ NumValues > q_cap
    /\ popped = pushed

\* C9: a ring of capacity C never stores more than C-1 elements; a push
\* returns false exactly when C-1 elements are stored at its check (with no
\* pops: the first C-1 pushes succeed and the C-th fails); full() is true
\* exactly when C-1 elements are stored.
C9_OneSlotOpen ==
    /\ Stored <= q_cap - 1
    /\ Full <=> (Stored = q_cap - 1)
    /\ prod.pc \in {"store", "publish", "returned"} =>
           (prod.full <=> (prod.sz = q_cap - 1))
    /\ (prod.pc = "returned" /\ cons.pc = "idle") =>
           /\ prod.sz = prod.i - (IF prod.full THEN 0 ELSE 1)
           /\ prod.full => prod.i = q_cap - 1
           /\ ~prod.full => prod.i <= q_cap - 1

\* Capacity 4, no pop yet: three pushes accepted, the fourth refused.
C9_Witness ==
    /\ q_cap = 4 /\ cons.pc = "idle" /\ popped = <<>>
    /\ prod.pc = "returned" /\ prod.full
    /\ Len(pushed) = 3
    /\ Full

AllDelivered ==
    /\ prod.i = NumValues /\ prod.pc = "returned"
    /\ cons.consumed = NumValues /\ cons.pc = "returned"
    /\ popped = [j \in 1..NumValues |-> ValueOf(j - 1)]
    /\ Empty

\* C10: with a producer retrying push until N values are accepted and a
\* consumer retrying pop until N values are received, N larger than the
\* capacity (at least 2), under weak fairness of both threads both
\* eventually terminate with all N values delivered and the ring empty.
C10_BothTerminate == (q_cap >= 2) => <>AllDelivered

(***************************************************************************)
(* Properties of the service registry (checked under SpecRegistry).        *)
(***************************************************************************)
\* C4: every map a reader sees through a snapshot is the registry content
\* published by some prefix of the single writer's mutations (the initial
\* empty map included); it is never a freed object and never a map holding a
\* list that is only partly assigned.
C4_WholeSnapshots ==
    \A r \in RegReaders :
        rd[r].pc = "seen" =>
            /\ rd[r].seen.st = "live"
            /\ \E j \in 1..Len(r_hist) : r_hist[j] = rd[r].seen.map
            /\ \A id \in Keys(rd[r].seen.map) : rd[r].seen.map[id] \in RegLists

\* A reader still looking at an earlier non-empty map while the writer is
\* part-way through assigning a replacement list in its private copy.
C4_Witness ==
    \E r \in RegReaders :
        /\ rd[r].pc = "seen"
        /\ Keys(rd[r].seen.map) # {}
        /\ wr.pc = "m_apply" /\ wr.op = "Replace" /\ wr.k >= 1
        /\ r_heap[wr.next].map # rd[r].seen.map

(***************************************************************************)
(* Properties of the factory (checked under SpecFactory).                  *)
(***************************************************************************)
IsPow2(c) == \E k \in 0..(MaxCapBits + 1) : c = 2 ^ k

\* C11: with_capacity returns CapacityZero for 0, CapacityNotPowerOfTwo for
\* any other capacity that is not a power of two, and for a power of two an
\* empty queue whose capacity() is the requested value; the pushes and pops
\* that follow report full or empty only and leave the factory's result as
\* it was.
C11_FactoryValidation ==
    f_res # "none" =>
        /\ f_req = 0 => f_res = "CapacityZero"
        /\ (f_req # 0 /\ ~IsPow2(f_req)) => f_res = "CapacityNotPowerOfTwo"
        /\ IsPow2(f_req) =>
              /\ f_res = "Ok"
              /\ q_cap = f_req
              /\ DOMAIN q_buf = 0..(f_req - 1)
              /\ pushed = <<>> => Empty /\ ApproxSize = 0
        /\ f_res # "Ok" => q_cap = 0 /\ prod = ProdIdle /\ cons = ConsIdle
        /\ prod.full \in BOOLEAN /\ cons.empty \in BOOLEAN

\* A queue of capacity 4 from the factory, on which a push found the ring
\* full and a pop found it empty at some time.
C11_Witness ==
    /\ f_res = "Ok" /\ f_req = 4 /\ q_cap = 4
    /\ prod.pc = "returned" /\ prod.full
    /\ cons.pc = "returned" /\ cons.empty

(***************************************************************************)
(* Properties of the packet pool (checked under SpecPool).                 *)
(***************************************************************************)
\* The handles in the free ring, oldest first, read through the indices.
RingSeq == [j \in 1..ApproxSize |-> q_buf[BitAnd(q_head + j - 1, q_cap - 1)]]

Count(seq, h) == Cardinality({j \in 1..Len(seq) : seq[j] = h})

\* The handle a release call in progress is carrying (or gets back on refusal).
InTx(h) == IF tx.pc # "idle" /\ ~tx.seed /\ tx.legit /\ tx.hd = h
              /\ ~(tx.pc = "returned" /\ tx.ok)
           THEN 1 ELSE 0

\* The handle an acquire call is about to hand to its caller.
InRx(h) == IF rx.pc = "returned" /\ rx.ok /\ rx.out = h THEN 1 ELSE 0

\* C12: in a fresh pool of capacity N the first N acquires succeed and
\* return 0, 1, .. N-1 in that order and the next acquire, with no release
\* in between, fails; at any time an acquire fails exactly when the free
\* list is empty, so one release allows exactly one more acquire.
C12_SeedAndExhaust ==
    p_pc = "ready" =>
        /\ (rx.pc = "returned" /\ rx.ok /\ ~p_released) =>
               rx.out = p_nacq - 1 /\ p_nacq <= p_cap
        /\ (rx.pc = "returned" /\ ~rx.ok /\ ~p_released) => p_nacq = p_cap
        /\ rx.pc \in {"take", "publish"} => rx.sz > 0
        /\ rx.pc = "returned" => (rx.ok <=> rx.sz > 0)
        /\ (~p_released /\ rx.pc \in {"idle", "check", "take", "publish"}) =>
               Len(p_free) = p_cap - p_nacq

\* Capacity 2, no release yet: two acquires succeeded, the third failed.
C12_Witness ==
    /\ p_pc = "ready" /\ p_cap = 2 /\ ~p_released
    /\ rx.pc = "returned" /\ ~rx.ok
    /\ p_nacq = 2
    /\ p_out[0] = 1 /\ p_out[1] = 1

\* C13: as long as every release gives back a handle that is outstanding,
\* each of the handles 0..N-1 is in exactly one place: in the free list, with
\* its holder, or in the hands of a call in progress; so no handle is handed
\* out twice and with none outstanding the free list holds exactly 0..N-1.
C13_HandleConservation ==
    (p_pc = "ready" /\ p_bad = 0) =>
        /\ \A h \in 0..(p_cap - 1) :
               Count(RingSeq, h) + p_out[h] + InTx(h) + InRx(h) = 1
        /\ \A j \in 1..Len(RingSeq) : RingSeq[j] \in 0..(p_cap - 1)
        /\ \A h \in HandleSpace \ (0..(p_cap - 1)) : p_out[h] = 0

\* Both handles of a pool of 2 went out and came back in the other order.
C13_Witness ==
    /\ p_pc = "ready" /\ p_cap = 2 /\ p_bad = 0 /\ p_released
    /\ rx.pc = "idle" /\ tx.pc = "idle"
    /\ \A h \in HandleSpace : p_out[h] = 0
    /\ RingSeq = <<1, 0>>

\* C14: a release made when no handle is outstanding and all N handles are
\* in the free list (at the call and still when push tests the ring) returns
\* false and leaves the free list as it was; the free list never holds more
\* than N handles nor the same handle twice.
C14_OverReleaseRejected ==
    p_pc = "ready" =>
        /\ (tx.pc = "returned" /\ ~tx.seed /\ tx.over /\ tx.sz = p_cap) => ~tx.ok
        /\ ApproxSize <= p_cap
        /\ \A h \in HandleSpace : Count(RingSeq, h) <= 1

\* C15: acquire returns the handles in the order they were pushed to the
\* free list (the seeding order, then the order of release): the ring read
\* through its indices is always that sequence; acquire and release leave
\* the descriptors as they were last written through get.
C15_FifoRecycle ==
    p_pc \in {"seeding", "ready"} =>
        /\ RingSeq = p_free
        /\ (rx.pc = "returned" /\ rx.ok) => rx.out = rx.exp
        /\ p_storage = p_written

\* Pool of 2: both handles acquired, handle 1 released before handle 0 and
\* written to; the next acquire returned handle 1 with its descriptor intact.
C15_Witness ==
    /\ p_pc = "ready" /\ p_cap = 2 /\ p_nacq = 2 /\ p_bad = 0
    /\ rx.pc = "returned" /\ rx.ok /\ rx.out = 1
    /\ p_free = <<0>>
    /\ p_storage[1] # DefaultPacket

RegBadIds == { <<"b", "!">> }
RegBadLists == {ListDup, ListBadIp, ListEmpty, ListTooLong}
SamePublished ==
    /\ r_heap[r_map].map = wr.pre.map
    /\ r_version = wr.pre.version
    /\ Len(r_hist) = wr.pre.pubs
ValidCall ==
    /\ wr.op \in RegModes
    /\ ValidateId(wr.id, MaxIdLen)
    /\ ValidatePops(wr.pops)

\* C16: a mutation whose id has a character outside the id alphabet, or
\* whose PoP list has an unparsable IP, a duplicate Pop.id, no element or
\* more than MaxPopsPerService elements, returns Invalid; a call that
\* returns Invalid leaves the published map and the version as they were,
\* publishes nothing and changes no counter but failures, which grows by one.
C16_InvalidRejected ==
    /\ (wr.pc # "idle" /\ wr.op \in RegModes
            /\ (wr.id \in RegBadIds \/ wr.pops \in RegBadLists))
          => (wr.pc = "returned" /\ wr.ret = "Invalid")
    /\ (wr.pc = "returned" /\ wr.ret = "Invalid")
          => /\ SamePublished
             /\ r_stats = [wr.pre.stats EXCEPT !.failures = @ + 1]

C16_Witness ==
    /\ wr.pc = "returned" /\ wr.ret = "Invalid"
    /\ wr.pops = ListDup /\ wr.id \notin RegBadIds
    /\ wr.pre.map # EmptyMap

C18_CapacityAtMax ==
    /\ (wr.pc = "returned" /\ ValidCall /\ wr.op = "Add"
            /\ Cardinality(Keys(wr.pre.map)) = MaxServices
            /\ wr.id \notin Keys(wr.pre.map))
          => wr.ret = "Capacity"
    /\ \A i \in 1..Len(r_hist) : Cardinality(Keys(r_hist[i])) <= MaxServices

\* C19: after upsert(id, pops) returns Ok the current snapshot maps id to
\* exactly pops, also when id was present before with another list.
C19_UpsertReplaces ==
    (wr.pc = "returned" /\ wr.op = "Upsert" /\ wr.ret = "Ok")
        => /\ wr.id \in Keys(r_heap[r_map].map)
           /\ r_heap[r_map].map[wr.id] = wr.pops

\* C20: upsert returns Ok whenever id and pops pass validation, whatever the
\* registry holds; it never returns Exists or NotFound.
C20_UpsertAlwaysOk ==
    (wr.pc = "returned" /\ ValidCall /\ wr.op = "Upsert") => wr.ret = "Ok"

\* C21: upsertService(id, pops) right after an upsertService(id, pops) with
\* the same valid arguments leaves the snapshot content as the first call
\* left it.
C21_UpsertIdempotent ==
    (wr.pc = "returned" /\ wr.op = "Upsert" /\ ValidCall
        /\ wr.last.op = "Upsert" /\ wr.last.id = wr.id /\ wr.last.pops = wr.pops)
        => r_heap[r_map].map = wr.pre.map

C21_Witness ==
    /\ wr.pc = "returned" /\ wr.op = "Upsert" /\ wr.ret = "Ok"
    /\ wr.last.op = "Upsert" /\ wr.last.id = wr.id /\ wr.last.pops = wr.pops
    /\ wr.id \in Keys(wr.last.before)
    /\ wr.last.before[wr.id] # wr.pops

\* C22: removeService(id) right after an addService(id, pops) that returned
\* Ok returns true and leaves the snapshot content the add found: every
\* other service with its list, and no id.
C22_AddRemoveRoundTrip ==
    (wr.pc = "returned" /\ wr.op = "Remove"
        /\ wr.last.op = "Add" /\ wr.last.id = wr.id)
        => /\ wr.ret = "true"
           /\ wr.id \notin Keys(wr.last.before)
           /\ r_heap[r_map].map = wr.last.before

C22_Witness ==
    /\ wr.pc = "returned" /\ wr.op = "Remove" /\ wr.ret = "true"
    /\ wr.last.op = "Add" /\ wr.last.id = wr.id
    /\ wr.last.before # EmptyMap

\* C23: removeService(id) returns true exactly when id was in the snapshot,
\* and then the new snapshot is the old one without id; when it returns
\* false nothing is published and content, version and all counters
\* (removes and failures included) are as before.
C23_RemoveResult ==
    (wr.pc = "returned" /\ wr.op = "Remove")
        => /\ wr.ret \in {"true", "false"}
           /\ wr.ret = "true" <=> wr.id \in Keys(wr.pre.map)
           /\ wr.ret = "true"
                => /\ Keys(r_heap[r_map].map) = Keys(wr.pre.map) \ {wr.id}
                   /\ \A k \in Keys(r_heap[r_map].map) :
                          r_heap[r_map].map[k] = wr.pre.map[k]
                   /\ Len(r_hist) = wr.pre.pubs + 1
                   /\ r_stats = [wr.pre.stats EXCEPT !.removes = @ + 1]
           /\ wr.ret = "false"
                => /\ SamePublished
                   /\ r_stats = wr.pre.stats

C23_Witness ==
    /\ wr.pc = "returned" /\ wr.op = "Remove" /\ wr.ret = "false"
    /\ wr.pre.map # EmptyMap
    /\ wr.id = <<"s", "2">>

\* C24: clear() publishes an empty snapshot whatever the registry held and
\* changes none of adds, replaces, upserts, removes, failures.
C24_ClearPublishesEmpty ==
    (wr.pc = "returned" /\ wr.op = "Clear")
        => /\ wr.ret = "void"
           /\ r_heap[r_map].map = EmptyMap
           /\ Len(r_hist) = wr.pre.pubs + 1
           /\ r_hist[Len(r_hist)] = EmptyMap
           /\ r_stats = wr.pre.stats

C24_Witness ==
    /\ wr.pc = "returned" /\ wr.op = "Clear"
    /\ Cardinality(Keys(wr.pre.map)) = 2

\* C25: version() is 0 at the start, no step decreases it or adds more than
\* one, a call that published (add, replace, upsert returning Ok, remove
\* returning true, clear) has raised it by exactly one, and a call that
\* returned an error or false has left it as it was.
C25_VersionCounts ==
    /\ r_version = 0
    /\ [][r_version' = r_version \/ r_version' = r_version + 1]_vars
    /\ [](wr.pc = "returned"
            => IF wr.ret \in {"Ok", "true", "void"}
               THEN r_version = wr.pre.version + 1 /\ Len(r_hist) = wr.pre.pubs + 1
               ELSE r_version = wr.pre.version /\ Len(r_hist) = wr.pre.pubs)
    /\ [](wr.pc \in {"idle", "returned"} => r_version = Len(r_hist) - 1)

C25_Witness ==
    /\ wr.pc = "returned" /\ wr.op = "Remove" /\ wr.ret = "false"
    /\ r_version = 1

\* The data model's bounds on a mutation's input.
InBoundsId(id) ==
    /\ Len(id) >= 2 /\ Len(id) <= MaxIdLen
    /\ \A j \in 1..Len(id) : id[j] \in IdChars
InBoundsPop(p) ==
    /\ InBoundsId(p.id)
    /\ Len(p.region) >= 1 /\ Len(p.region) <= MaxRegionLen
    /\ \A j \in 1..Len(p.region) : p.region[j] \in IdChars
    /\ p.ip.len <= MaxIpLen /\ (p.ip.inet4 \/ p.ip.inet6)
InBounds(id, pops) ==
    /\ InBoundsId(id)
    /\ Len(pops) >= 1 /\ Len(pops) <= MaxPopsPerService
    /\ \A j \in 1..Len(pops) : InBoundsPop(pops[j])
    /\ \A j, k \in 1..Len(pops) : pops[j].id = pops[k].id => j = k

\* C26: a mutation whose service id and Pop.ids have 2..32 characters of
\* [A-Za-z0-9_-], whose regions have 1..32 such characters, whose IPs
\* parse, whose Pop.ids are unique and whose list has 1..32 PoPs is never
\* rejected as Invalid.
C26_InBoundsAccepted ==
    (wr.pc = "returned" /\ wr.op \in RegModes /\ InBounds(wr.id, wr.pops))
        => wr.ret # "Invalid"

(***************************************************************************)
(* Properties of the path-selection policies (checked under SpecPolicy     *)
(* and SpecPolicyQuiet).                                                   *)
(***************************************************************************)
\* The call of thread t has returned.
Chosen(t) == ch[t].pc = "returned"

\* The ids of the candidates of a list.
CandIds(cands) == {cands[j].id : j \in DOMAIN cands}

\* The completed load_metrics calls of a call record that failed.
FailedReads(c) == {j \in 1..Len(c.reads) : ~c.reads[j].ok}

\* C27: for each of the three policies and under every interleaving with
\* update_metrics calls on the slots, failed seqlock reads included, choose
\* returns 0 for an empty list and the id of a member of the list otherwise.
C27_ReturnsCandidate ==
    \A t \in DpThreads :
        Chosen(t) =>
            IF ch[t].n = 0 THEN ch[t].ret = 0
            ELSE ch[t].ret \in CandIds(ch[t].cands)

\* A latency-aware call on a full list returns a candidate although a
\* load_metrics call of it failed.
C27_Witness ==
    \E t \in DpThreads :
        /\ Chosen(t) /\ pol.kind = "la" /\ ch[t].n = MaxCands
        /\ FailedReads(ch[t]) # {}
        /\ ch[t].ret \in CandIds(ch[t].cands)

\* Read number j of a call record succeeded and found healthy == true.
ReadHealthy(c, j) == c.reads[j].ok /\ c.reads[j].m.healthy

\* The reads of a call record are a scan from index from: candidate from,
\* from + 1, ... wrapping, n reads at most, stopped by the first healthy read;
\* the result is that read's candidate, or candidate from after n reads
\* without a healthy one.
ScanFrom(c, from) ==
    LET len == Len(c.reads) IN
        /\ len <= c.n
        /\ \A j \in 1..len : c.reads[j].k = (from + j - 1) % c.n
        /\ \A j \in 1..(len - 1) : ~ReadHealthy(c, j)
        /\ IF len > 0 /\ ReadHealthy(c, len)
           THEN c.ret = c.cands[c.reads[len].k].id
           ELSE len = c.n /\ c.ret = c.cands[from].id

\* C28: a RoundRobinPolicy::choose call on n > 0 candidates starts at the
\* counter's value before the call modulo n, leaves the counter one higher,
\* and returns the first candidate read healthy in the order start,
\* start + 1, ... wrapping, or cands[start].id when none is read healthy.
C28_RoundRobinScan ==
    \A t \in DpThreads :
        (Chosen(t) /\ pol.kind = "rr" /\ ch[t].n > 0) =>
            /\ pol.idx = (ch[t].idx0 + 1) % TwoPow32
            /\ ScanFrom(ch[t], ch[t].idx0 % ch[t].n)

\* The counter wraps to 0, the scan starts above index 0, wraps, and finds
\* its first healthy candidate below the start.
C28_Witness ==
    \E t \in DpThreads :
        /\ Chosen(t) /\ pol.kind = "rr" /\ pol.idx = 0 /\ ch[t].n > 0
        /\ ch[t].idx0 % ch[t].n > 0
        /\ Len(ch[t].reads) >= 2
        /\ ReadHealthy(ch[t], Len(ch[t].reads))
        /\ ch[t].ret = ch[t].cands[0].id

\* FlowHashPolicy::choose has returned to thread t from a non-empty list.
FlowHashChosen(t) == Chosen(t) /\ pol.kind = "fh" /\ ch[t].n > 0

\* C29: a FlowHashPolicy::choose call on n > 0 candidates with base =
\* flow_hash mod n returns cands[base].id without a slot read when
\* skip_unhealthy is false, and otherwise the first candidate read healthy
\* from base on, wrapping, or cands[base].id when none is; no step of the
\* call changes the policy object.
C29_FlowHashMapping ==
    /\ [](\A t \in DpThreads :
            FlowHashChosen(t) =>
                LET base == ch[t].flow_hash % ch[t].n IN
                    IF pol.skip_unhealthy
                    THEN ScanFrom(ch[t], base)
                    ELSE ch[t].reads = << >> /\ ch[t].ret = ch[t].cands[base].id)
    /\ [][pol.kind = "fh" => pol' = pol]_vars

\* With skip_unhealthy the scan starts above index 0, passes a candidate
\* that is not read healthy, wraps and returns a healthy one.
C29_Witness ==
    \E t \in DpThreads :
        /\ FlowHashChosen(t) /\ pol.skip_unhealthy
        /\ ch[t].flow_hash % ch[t].n > 0
        /\ Len(ch[t].reads) >= 2
        /\ ReadHealthy(ch[t], Len(ch[t].reads))
        /\ ch[t].ret = ch[t].cands[0].id

\* The metrics in the slot of candidate j of a call record.
SlotOf(c, j) == s_metrics[c.cands[j].slot]

\* The candidates of a call record whose slots hold healthy == true.
HealthyCands(c) == {j \in DOMAIN c.cands : SlotOf(c, j).healthy}

\* The healthy candidates with the minimum rtt_us among the healthy ones.
MinRttCands(c) ==
    {j \in HealthyCands(c) :
        \A h \in HealthyCands(c) : SlotOf(c, j).rtt_us <= SlotOf(c, h).rtt_us}

\* The lowest index of a non-empty set of indices.
Lowest(S) == CHOOSE j \in S : \A h \in S : j <= h

\* C30: LatencyAwarePolicy::choose with explore_ppm = 0, no slot being
\* written and a healthy candidate returns a healthy candidate that has the
\* minimum rtt_us among the healthy ones, or, with prefer_qos_class only,
\* one whose qos_class matches while a minimum-RTT candidate's does not and
\* whose rtt_us is at most tie_margin_us above the minimum; with
\* prefer_qos_class false it returns the lowest-index minimum-RTT healthy
\* candidate.
C30_LatencyAwareBest ==
    \A t \in DpThreads :
        LET c == ch[t] IN
            (/\ Chosen(t) /\ pol.kind = "la" /\ pol.explore_ppm = 0
             /\ s_cp.pc = "idle" /\ HealthyCands(c) # {})
            => \E r \in HealthyCands(c) :
                  /\ c.ret = c.cands[r].id
                  /\ \/ r \in MinRttCands(c)
                     \/ /\ pol.prefer_qos_class
                        /\ QosMatch(SlotOf(c, r).qos_class, c.dscp)
                        /\ \E b \in MinRttCands(c) :
                              /\ ~QosMatch(SlotOf(c, b).qos_class, c.dscp)
                              /\ SlotOf(c, r).rtt_us - SlotOf(c, b).rtt_us
                                    <= pol.tie_margin_us
                  /\ ~pol.prefer_qos_class => r = Lowest(MinRttCands(c))

\* The reads a call record made in a phase.
PhaseReads(c, phase) == {j \in 1..Len(c.reads) : c.reads[j].phase = phase}

\* The candidates the fallback pass of a call record read successfully.
Readable(c) == {c.reads[j].k : j \in {h \in PhaseReads(c, "fallback") : c.reads[h].ok}}

\* The rtt_us the fallback pass read for candidate k.
FallbackRtt(c, k) ==
    LET j == CHOOSE h \in PhaseReads(c, "fallback") : c.reads[h].k = k /\ c.reads[h].ok
    IN  c.reads[j].m.rtt_us

\* C31: when the healthy pass of LatencyAwarePolicy::choose reads no
\* candidate healthy, the call reads every candidate once more, returns the
\* lowest-index candidate with the minimum rtt_us among those it could read,
\* whatever their health, and cands[0].id when it could read none; it does
\* not explore.
C31_LatencyAwareFallback ==
    \A t \in DpThreads :
        LET c == ch[t] IN
            (/\ Chosen(t) /\ pol.kind = "la" /\ c.n > 0
             /\ \A j \in PhaseReads(c, "healthy") : ~ReadHealthy(c, j))
            => /\ PhaseReads(c, "explore") = {} /\ pol.salt = c.salt0
               /\ {c.reads[j].k : j \in PhaseReads(c, "fallback")} = DOMAIN c.cands
               /\ Cardinality(PhaseReads(c, "fallback")) = c.n
               /\ IF Readable(c) = {}
                  THEN c.ret = c.cands[0].id
                  ELSE c.ret = c.cands[Lowest({k \in Readable(c) :
                                 \A h \in Readable(c) :
                                     FallbackRtt(c, k) <= FallbackRtt(c, h)})].id

\* No candidate was read healthy, and the fallback returns a candidate
\* above index 0 whose unhealthy slot holds the smallest rtt_us, with
\* exploration configured.
C31_Witness ==
    \E t \in DpThreads :
        /\ Chosen(t) /\ pol.kind = "la" /\ pol.explore_ppm # 0
        /\ ch[t].via = "fallback" /\ ch[t].n = MaxCands
        /\ ch[t].ret # ch[t].cands[0].id
        /\ Readable(ch[t]) = DOMAIN ch[t].cands

\* The call of thread t returned the candidate of an exploring read: one
\* that read healthy on an index other than the computed best.
Deviated(t) ==
    \E j \in PhaseReads(ch[t], "explore") :
        /\ ReadHealthy(ch[t], j)
        /\ ch[t].reads[j].k # ch[t].best
        /\ ch[t].ret = ch[t].cands[ch[t].reads[j].k].id

\* C32: a LatencyAwarePolicy::choose call that read a candidate healthy
\* returns the computed best with the salt untouched, or, with explore_ppm
\* > 0 only, a candidate of another index that it read healthy, with the
\* salt perturbed; it never returns no-path; the salt differs from its
\* initial value only after a deviating call.
C32_Exploration ==
    /\ \A t \in DpThreads :
        LET c == ch[t] IN
            (/\ Chosen(t) /\ pol.kind = "la" /\ c.n > 0
             /\ \E j \in PhaseReads(c, "healthy") : ReadHealthy(c, j))
            => /\ c.ret \in CandIds(c.cands)
               /\ \/ c.ret = c.cands[c.best].id /\ pol.salt = c.salt0
                  \/ /\ pol.explore_ppm > 0 /\ Deviated(t)
                     /\ c.ret # c.cands[c.best].id
                     /\ pol.salt = SaltNext(c.salt0) /\ pol.salt # c.salt0
    /\ (pol.kind = "la" /\ pol.salt # SaltInit)
          => \E t \in DpThreads : Chosen(t) /\ Deviated(t)

\* An exploring call skips a candidate that is not read healthy and
\* returns a healthy one that is not the computed best.
C32_Witness ==
    \E t \in DpThreads :
        /\ Chosen(t) /\ pol.kind = "la" /\ Deviated(t)
        /\ Cardinality(PhaseReads(ch[t], "explore")) >= 2
        /\ pol.salt = SaltNext(SaltInit)

(***************************************************************************)
(* Invariants of the seqlock cells (checked under SpecSeqlock).            *)
(***************************************************************************)
\* update_metrics is between its first and its last store to seq.
UpdateStoring == cp.pc \in {"um_copy", "um_even"}

\* C33: with its single writer, MetricsSlot::seq starts at 0, is odd exactly
\* between the first and the last store of an update_metrics call and even
\* otherwise, changes only by these two stores, is 2 higher after the call
\* than at the call, and the payload changes only while seq is odd.
C33_SlotSeqParity ==
    /\ m_seq = 0
    /\ [](WriterActive(m_seq) <=> UpdateStoring)
    /\ [](cp.pc = "um_odd" => m_seq = cp.start)
    /\ [][m_seq' # m_seq => (cp.pc \in {"um_odd", "um_even"} /\ m_seq' = (m_seq + 1) % TwoPow32)]_vars
    /\ [][(cp.pc = "um_even" /\ cp'.pc = "idle") => m_seq' = (cp.start + 2) % TwoPow32]_vars
    /\ [][m_metrics' # m_metrics => (WriterActive(m_seq) /\ m_seq' = m_seq)]_vars

\* The second update_metrics call has written part of the payload: seq is
\* 3 and the payload is none of the values passed in.
C33_Witness ==
    /\ cp.pc = "um_copy" /\ m_seq = 3
    /\ m_metrics \notin m_hist

\* Bound: both pointers non-null and stored by one publish_policy call.
Bound == b_fn # Null /\ b_state # Null /\ <<b_fn, b_state>> \in b_hist

\* C34: with its single CP writer, whenever no publish_policy or
\* clear_policy is in progress PolicyBinding::seq is even and fn and state
\* are both null or both non-null and from one publish; a publish_policy
\* call ends Bound to its policy and a clear_policy call ends Unbound,
\* whatever the state before, and each leaves seq 2 higher than at the call.
C34_BindingStates ==
    /\ [](~CpOnBinding =>
            /\ ~WriterActive(b_seq)
            /\ (b_fn = Null /\ b_state = Null) \/ Bound)
    /\ [](cp.pc \in {"pp_odd", "cl_odd"} => b_seq = cp.start)
    /\ [][(cp.pc = "pp_even" /\ cp'.pc = "idle") =>
            /\ b_state' = cp.arg /\ b_fn' = ThunkOf(cp.arg)
            /\ b_seq' = (cp.start + 2) % TwoPow32]_vars
    /\ [][(cp.pc = "cl_even" /\ cp'.pc = "idle") =>
            /\ b_state' = Null /\ b_fn' = Null
            /\ b_seq' = (cp.start + 2) % TwoPow32]_vars

\* Unbound again after a publish and a clear, then bound by a third call.
C34_Witness ==
    /\ ~CpOnBinding /\ cp.pc = "idle" /\ b_seq = 6 /\ Bound
    /\ Cardinality(b_hist) = 2

(***************************************************************************)
(* Snapshots held by readers (checked under SpecRegistrySeeded).           *)
(***************************************************************************)
\* Reader r holds a snapshot.
Holds(r) == rd[r].pc \in {"held", "seen"}

\* A step inside a call of the writer.
WriterStep ==
    \/ MutateSnapshot \/ MutateCopy \/ MutateApply \/ MutateStore
    \/ MutateVersion \/ MutateCount
    \/ RemoveCopy \/ RemoveStore \/ RemoveVersion \/ RemoveCount
    \/ RegClearStore \/ RegClearVersion

\* C35: the map behind a snapshot a reader holds is live and no step
\* changes it while the reader holds it, whatever the writer publishes in
\* the meantime; an object is destroyed only by a step after which no
\* shared_ptr points to it; the writer inside a call can always take its
\* next step, whatever the readers hold.
C35_HeldSnapshotStable ==
    /\ [](\A r \in RegReaders : Holds(r) => r_heap[rd[r].snap].st = "live")
    /\ [][\A r \in RegReaders :
            (Holds(r) /\ rd'[r].pc \in {"held", "seen"}) =>
                /\ rd'[r].snap = rd[r].snap
                /\ r_heap'[rd[r].snap] = r_heap[rd[r].snap]]_vars
    /\ [][\A o \in Objs :
            (r_heap[o].st = "live" /\ r_heap'[o].st # "live") =>
                o \notin Referenced(r_map', wr', rd')]_vars
    /\ [](wr.pc \notin {"idle", "returned"} => ENABLED WriterStep)

\* A reader still sees the seeded map through its snapshot after the
\* writer has published two other maps.
C35_Witness ==
    \E r \in RegReaders :
        /\ rd[r].pc = "seen" /\ rd[r].snap = 0 /\ rd[r].seen = Live(SeededMap)
        /\ r_heap[0] = Live(SeededMap)
        /\ Len(r_hist) = 4 /\ r_map # 0 /\ r_heap[r_map].map # SeededMap
        /\ wr.pc = "returned"

(***************************************************************************)
(* Frame conditions of the ring (checked under SpecSpsc).                  *)
(***************************************************************************)
\* head and tail are indices of the buffer.
IndicesInRange == q_head \in 0..(q_cap - 1) /\ q_tail \in 0..(q_cap - 1)

\* The slots of the buffer other than slot j are unchanged by the step.
OtherSlotsKept(j) == \A x \in DOMAIN q_buf : x # j => q_buf'[x] = q_buf[x]

\* The steps of push: none touches head or the consumer; only the store
\* of an accepted push changes the buffer, in slot tail; only its last step
\* changes tail; the steps of a push that returns false change nothing.
PushFrame ==
    prod' # prod =>
        /\ q_head' = q_head /\ cons' = cons
        /\ q_buf' # q_buf => (prod.pc = "store" /\ prod.t = q_tail /\ OtherSlotsKept(q_tail))
        /\ q_tail' # q_tail => prod.pc = "publish"
        /\ (prod.pc = "check" /\ prod'.pc = "returned") =>
                (prod'.full /\ q_tail' = q_tail /\ q_buf' = q_buf)

\* The steps of pop: none touches tail or the producer; only the move of a
\* successful pop changes out; only its last step changes head; the steps
\* of a pop that returns false change nothing.
PopFrame ==
    cons' # cons =>
        /\ q_tail' = q_tail /\ prod' = prod
        /\ cons'.out # cons.out => cons.pc = "take"
        /\ q_head' # q_head => cons.pc = "publish"
        /\ (cons.pc = "check" /\ cons'.pc = "returned") =>
                (cons'.empty /\ q_head' = q_head /\ q_buf' = q_buf /\ cons'.out = cons.out)

\* C36: a push that returns false and a pop that returns false change
\* nothing; a successful push writes only buf[tail] and tail; a successful
\* pop writes only out and head, so no step of pop changes the buffer; head
\* and tail stay within 0..C-1.
C36_FrameConditions ==
    /\ []IndicesInRange
    /\ [][PushFrame]_vars
    /\ [][PopFrame /\ (cons' # cons => q_buf' = q_buf)]_vars

\* C36 as the code has it: the move in a successful pop also writes
\* buf[head], leaving the slot moved-from when T is move-only (and as it
\* was when T is trivially copyable); pop writes no other slot.
C36_FrameConditionsMove ==
    /\ []IndicesInRange
    /\ [][PushFrame]_vars
    /\ [][PopFrame /\ (cons' # cons =>
                          /\ OtherSlotsKept(q_head)
                          /\ q_buf' # q_buf =>
                                (/\ cons.pc = "take" /\ cons.h = q_head
                                 /\ q_elem = "move_only" /\ q_buf'[q_head] = Moved))]_vars

\* A successful pop of a move-only element has moved it into out and left
\* the slot at head moved-from, after the ring has wrapped.
C36_Witness ==
    /\ cons.pc = "publish" /\ q_elem = "move_only" /\ q_cap > 1
    /\ q_buf[q_head] = Moved /\ cons.out = ValueOf(cons.consumed)
    /\ cons.consumed >= q_cap

(***************************************************************************)
(* Publication and version (checked under SpecRegistry).                   *)
(***************************************************************************)
\* The number of snapshots the writer has published.
Published == Len(r_hist) - 1

\* C37: every mutation stores the new snapshot before it increments
\* version, so the number of published snapshots is version or version + 1
\* in every state; snapshot() returns the latest published map, and
\* publications only accumulate (the count never falls), so once version()
\* has returned v every later snapshot() returns a map that at least v
\* publications led to.
C37_PublishBeforeCount ==
    /\ [](Published = r_version \/ Published = r_version + 1)
    /\ [](r_heap[r_map] = Live(r_hist[Len(r_hist)]))
    /\ [][Len(r_hist') >= Len(r_hist) /\ SubSeq(r_hist', 1, Len(r_hist)) = r_hist]_vars
    /\ [][r_version' >= r_version]_vars

\* The writer has stored a snapshot and not yet counted it, and a reader
\* already holds that snapshot.
C37_Witness ==
    \E r \in RegReaders :
        /\ wr.pc \in {"m_version", "rm_version", "cl_version"}
        /\ Published = r_version + 1 /\ r_version >= 1
        /\ rd[r].pc = "seen" /\ rd[r].snap = r_map
        /\ rd[r].seen.map = r_hist[Len(r_hist)]


\* A step inside load_metrics call r, its return included.
LoadStep(r) == dp[r].op = "load" /\ dp'[r].op = "load" /\ dp'[r] # dp[r]

\* The step in which load_metrics call r returns.
LoadReturns(r) == LoadStep(r) /\ dp[r].pc # "done" /\ dp'[r].pc = "done"

\* C38: seqlock freshness.  The slot starts with the initial value, holds
\* the argument of an update_metrics when that call completes and keeps its
\* value while no update_metrics is in progress, so outside an update it
\* holds the argument of the most recently completed one (or the initial
\* value).  A load_metrics call that overlaps no update_metrics returns true
\* on its first attempt with exactly that value.  No step of load_metrics
\* changes the slot, and out changes only in the step that returns true.
C38_SeqlockFreshness ==
    /\ m_metrics = DefaultMetrics /\ m_seq = 0
    /\ [][(cp.pc = "um_even" /\ cp'.pc = "idle") => m_metrics' = cp.arg]_vars
    /\ [][(cp.op # "update" /\ cp'.op # "update") =>
              m_metrics' = m_metrics /\ m_seq' = m_seq]_vars
    /\ [][\A r \in Readers :
              (LoadReturns(r) /\ ~dp'[r].ovl) =>
                  /\ cp.op # "update"
                  /\ dp'[r].ok /\ dp'[r].tries = 1
                  /\ dp'[r].out = m_metrics]_vars
    /\ [][\A r \in Readers :
              (LoadStep(r) /\ cp' = cp) =>
                  /\ m_metrics' = m_metrics /\ m_seq' = m_seq
                  /\ dp'[r].out # dp[r].out => dp'[r].pc = "done" /\ dp'[r].ok
                  /\ (dp'[r].pc = "done" /\ ~dp'[r].ok) => dp'[r].out = dp[r].out]_vars

\* A load_metrics call that overlapped no update_metrics has returned the
\* argument of the update_metrics completed before it, and a later
\* update_metrics is already changing the slot.
C38_Witness ==
    \E r \in Readers :
        /\ dp[r].op = "load" /\ dp[r].pc = "done" /\ ~dp[r].ovl
        /\ dp[r].ok /\ dp[r].tries = 1
        /\ dp[r].out \in MetricsArgs /\ dp[r].out # DefaultMetrics
        /\ cp.op = "update" /\ cp.ops = 2 /\ m_metrics # dp[r].out


\* Thread t enters choose in this step.
Calls(t) == ch[t].pc = "idle" /\ ch'[t].pc # "idle"

\* Thread t has obtained a counter value: it is past the fetch_add.
Obtained(t) == ch[t].pc # "idle" /\ ch[t].n > 0

\* The threads of T have returned from calls on the same list of as many
\* candidates as T has threads.
SameListReturned(T) ==
    \A t \in T : Chosen(t) /\ ch[t].n = Cardinality(T) /\ \A u \in T : ch[u].cands = ch[t].cands

\* The counter values the threads of T obtained.
ValuesOf(T) == {ch[t].idx0 : t \in T}

\* The calls of T selected each candidate exactly once.
EachOnce(T) == \A t \in T, u \in T : ch[t].ret = ch[u].ret => t = u

\* n consecutive counter values, the successor of 2^w - 1 being 0.
Consecutive(V, n) == \E c \in 0..U32Max : V = {(c + j) % TwoPow32 : j \in 0..(n - 1)}

\* n consecutive integers below 2^w.
ConsecutiveNoWrap(V, n) == \E c \in 0..(TwoPow32 - n) : V = {c + j : j \in 0..(n - 1)}

\* C39, as stated: every choose call, in any interleaving, advances the
\* counter by one, no two calls obtain the same counter value, and n calls on
\* n healthy, unchanged candidates that obtained n consecutive counter values
\* select each candidate exactly once.
C39_RoundRobinConcurrent ==
    /\ [][\A t \in RrThreads : Calls(t) => pol'.idx = (pol.idx + 1) % TwoPow32]_vars
    /\ [](\A t \in RrThreads, u \in RrThreads :
            (Obtained(t) /\ Obtained(u) /\ ch[t].idx0 = ch[u].idx0) => t = u)
    /\ [](\A T \in SUBSET RrThreads :
            (T # {} /\ SameListReturned(T) /\ Consecutive(ValuesOf(T), Cardinality(T)))
                => EachOnce(T))

\* C39, amended: every choose call on a non-empty list advances the counter
\* by one modulo 2^w in its first step and a call on an empty list leaves it
\* alone; no other step changes the counter; no two calls obtain the same
\* counter value; n calls on n healthy, unchanged candidates that obtained n
\* consecutive counter values select each candidate exactly once when the
\* values do not pass from 2^w - 1 to 0 or n divides 2^w.
C39_RoundRobinNoWrap ==
    /\ [][\A t \in RrThreads :
              Calls(t) => pol'.idx = IF ch'[t].n > 0 THEN (pol.idx + 1) % TwoPow32
                                                    ELSE pol.idx]_vars
    /\ [][(\A t \in RrThreads : ~Calls(t)) => pol' = pol]_vars
    /\ [](\A t \in RrThreads, u \in RrThreads :
            (Obtained(t) /\ Obtained(u) /\ ch[t].idx0 = ch[u].idx0) => t = u)
    /\ [](\A T \in SUBSET RrThreads :
            LET n == Cardinality(T) IN
            (/\ T # {} /\ SameListReturned(T)
             /\ \/ ConsecutiveNoWrap(ValuesOf(T), n)
                \/ TwoPow32 % n = 0 /\ Consecutive(ValuesOf(T), n))
                => EachOnce(T))

\* Three calls on three candidates have returned; the thread that entered
\* last of the three sits between the other two, and each candidate was
\* selected once.
C39_Witness ==
    /\ SameListReturned(RrThreads)
    /\ ch["dp1"].idx0 = 2 /\ ch["dp2"].idx0 = 0 /\ ch["dp3"].idx0 = 1
    /\ pol.idx = 3
    /\ EachOnce(RrThreads)
    /\ {ch[t].ret : t \in RrThreads} = CandIds(Cands(3))


\* The read a step of thread t completes, if it completes one.
Completes(t) == Len(ch'[t].reads) = Len(ch[t].reads) + 1
LastRead(t) == ch'[t].reads[Len(ch'[t].reads)]

\* In this step the healthy pass of thread t compares a healthy candidate,
\* whose rtt_us is not below the current best's, with the current best, and
\* only closeness decides whether it replaces the best: the tie-break is on,
\* the candidate's class matches and the best's does not.
TieBreakDecides(t) ==
    /\ pol.kind = "la" /\ pol.prefer_qos_class
    /\ Completes(t)
    /\ LastRead(t).phase = "healthy" /\ LastRead(t).ok /\ LastRead(t).m.healthy
    /\ ch[t].have_best
    /\ LastRead(t).m.rtt_us >= ch[t].bestm.rtt_us
    /\ QosMatch(LastRead(t).m.qos_class, ch[t].dscp)
    /\ ~QosMatch(ch[t].bestm.qos_class, ch[t].dscp)

\* C40: in the healthy pass of LatencyAwarePolicy::choose a candidate is
\* treated as close to the current best (and so replaces it when only
\* closeness decides) exactly when its rtt_us is at most best.rtt_us +
\* tie_margin_us, the sum taken in the integers, for all rtt_us and
\* tie_margin_us up to 2^w - 1.
C40_TieBreakNoWrap ==
    [][\A t \in DpThreads :
          TieBreakDecides(t) =>
              (ch'[t].best = LastRead(t).k
                  <=> LastRead(t).m.rtt_us <= ch[t].bestm.rtt_us + pol.tie_margin_us)]_vars

============================================================================
